---- MODULE Spec2Model ----
(***************************************************************************)
(* A model of the STOPS .PRN extraction pipeline (src/extractor.py,        *)
(* src/main.py).  A report document is a sequence of lines; a line is a    *)
(* record [k, tid, toks]: k is the shape the code's regular expressions    *)
(* distinguish, tid the table identifier a "Table <id>" title carries and  *)
(* toks the fields of the line (whitespace tokens of a header or matrix    *)
(* row, fixed-width cells of a data row).  Index 1 is the first line; the  *)
(* code's sentinel -1 is kept.                                             *)
(***************************************************************************)
EXTENDS Integers, Sequences, FiniteSets, TLC

VARIABLES
    pc,             \* position of the caller: "start", "run", "done", "crashed"
    config,         \* the extraction config dictionary handed to every call
    catfile,        \* the catalog file named by the config, as it is on disk
    format_config,  \* StopsPRNExtractor._format_config, the process-wide cache
    files,          \* files_to_process: sequence of [alias, exists, lines]
    tables,         \* tables_to_extract: sequence of table ids
    fi,             \* run_extraction: index of the file being processed
    ti,             \* run_extraction: index of the table being processed
    csv,            \* the CSV files on disk: one record per output path
    log,            \* diagnostics printed so far
    calls,          \* results of the extraction calls made so far
    family,         \* unit call: the extraction function applied
    table_id,       \* unit call: the requested table id
    lines,          \* unit call: the document read by f.readlines()
    result,         \* unit call: what the extraction function returned
    extraction_config,  \* main: what load_config returned for the extraction config
    reporting_config,   \* main: what load_config returned for the reporting config
    status,         \* main: exit status of the process, -1 while it runs
    widths,         \* column layout: the widths of a catalog columns list
    header_info,    \* column layout: the '<year> <label>' groups of a header line
    colspecs,       \* column layout: the (start, end) pairs handed to read_fwf
    col_names       \* column layout: the column names handed to read_fwf

vars == <<pc, config, catfile, format_config, files, tables, fi, ti, csv, log,
          calls, family, table_id, lines, result, extraction_config,
          reporting_config, status, widths, header_info, colspecs, col_names>>

(***************************************************************************)
(* Bounds of the model.                                                    *)
(***************************************************************************)
MaxRows == 2
MaxDest == 2

(***************************************************************************)
(* Values of a DataFrame cell: a string, an int64, a float64 (n whole      *)
(* part, f tenths) or a missing value (NaN / pd.NA / None).                *)
(***************************************************************************)
Str(s) == [t |-> "str", s |-> s, n |-> 0, f |-> 0]
IntV(n) == [t |-> "int", s |-> "", n |-> n, f |-> 0]
FloatV(n, f) == [t |-> "float", s |-> "", n |-> n, f |-> f]
NaN == [t |-> "nan", s |-> "", n |-> 0, f |-> 0]

\* Ten times the numeric value of a cell (0 for what is not a number).
Tenths(v) == IF v.t \in {"int", "float"} THEN 10 * v.n + v.f ELSE 0

EmptyDF == [cols |-> <<>>, rows |-> <<>>]
NoMeta == [Program |-> "", Version |-> "", Run |-> "", System |-> "", Page |-> ""]

\* df.empty
DfEmpty(df) == Len(df.cols) = 0 \/ Len(df.rows) = 0

\* What a call hands back: a returned (df, metadata) pair or a raised exception,
\* with the value the call leaves in the catalog cache.
\* diag is the message the function prints before an early return ("" if none).
Return(df, meta, fc) == [exc |-> "", df |-> df, meta |-> meta, fc |-> fc, diag |-> ""]
ReturnDiag(d, meta, fc) ==
    [exc |-> "", df |-> EmptyDF, meta |-> meta, fc |-> fc, diag |-> d]
Raise(e, fc) == [exc |-> e, df |-> EmptyDF, meta |-> NoMeta, fc |-> fc, diag |-> ""]
NoResult == [exc |-> "none", df |-> EmptyDF, meta |-> NoMeta,
             fc |-> [loaded |-> FALSE, entries |-> <<>>, reads |-> 0], diag |-> ""]

(***************************************************************************)
(* Text functions on the strings of the model.                             *)
(***************************************************************************)
\* str.lower()
Lower(s) ==
    CASE s \in {"Total", "TOTAL", "total"} -> "total"
      [] s = "Idist" -> "idist"
      [] s = "District" -> "district"
      [] OTHER -> s

\* str.replace(',', '')
RemoveCommas(s) == IF s = "1,234" THEN "1234" ELSE s

\* pd.to_numeric(..., errors='coerce') of one string cell
ToNumeric(s) ==
    CASE s = "0" -> IntV(0)
      [] s = "3" -> IntV(3)
      [] s = "5" -> IntV(5)
      [] s = "7" -> IntV(7)
      [] s = "1234" -> IntV(1234)
      [] s = "2.5" -> FloatV(2, 5)
      [] OTHER -> NaN

\* Series.fillna(0)
FillNa0(v) == IF v.t = "nan" THEN FloatV(0, 0) ELSE v

\* Series.astype(int): truncation toward zero
AsInt(v) == IntV(v.n)

\* "Total" in s
HasTotal(s) == s \in {"Total", "Totals"}

\* s.startswith("Total")
StartsWithTotal(s) == s \in {"Total", "Totals"}

(***************************************************************************)
(* Lines.                                                                  *)
(***************************************************************************)
Line(k, tid, toks) == [k |-> k, tid |-> tid, toks |-> toks]
Marker(tid) == Line("marker", tid, <<>>)    \* "Table <tid> ..." title line
Sep == Line("sep", "", <<>>)                \* "==========": 8 or more '='
ShortSep == Line("sepshort", "", <<>>)      \* "====": fewer than 8 '='
SepX == Line("sepx", "", <<"x">>)           \* "==== text": starts with '='
Dash == Line("dash", "", <<>>)              \* "----------"
Blank == Line("blank", "", <<>>)            \* "" or white space
Header(toks) == Line("hdr", "", toks)       \* a column header line
Row(toks) == Line("row", "", toks)          \* a data line
Page(form, v) == Line("page", "", <<form, v>>)  \* "Program STOPS - Version: ..."

\* The table ids of the model; the first is a proper prefix of the second.
TableIds == {"10.0", "10.01", "10.02", "10.03", "10.05", "10.06", "11.01",
             "12.01", "9.01", "13.01"}

\* The id of another table, which begins with the characters of tid.
LongerId(tid) ==
    CASE tid = "9.01" -> "9.015"
      [] tid = "10.01" -> "10.015"
      [] tid = "10.02" -> "10.025"
      [] tid = "10.03" -> "10.035"
      [] tid = "10.05" -> "10.055"
      [] tid = "10.06" -> "10.065"
      [] tid = "11.01" -> "11.015"
      [] tid = "12.01" -> "12.015"
      [] tid = "2.04" -> "2.045"
      [] OTHER -> "none"

\* re.search(r"Table\s+" + re.escape(table_id), line): an unanchored search,
\* so the title of a table whose id begins with table_id matches as well.
MarkerMatches(l, tid) ==
    /\ l.k = "marker"
    /\ \/ l.tid = tid
       \/ tid = "10.0" /\ l.tid \in {"10.01", "10.02", "10.03", "10.05", "10.06"}
       \/ l.tid = LongerId(tid)

\* re.search(r"Table\s+\d+\.\d+", line)
AnyMarker(l) == l.k = "marker"

\* re.search(r"^=+", line)
StartsWithEq(l) == l.k \in {"sep", "sepshort", "sepx"}

\* re.search(r"^={8,}", line)
StartsWithEq8(l) == l.k \in {"sep", "sepx"}

\* not line.strip()
IsBlank(l) == l.k = "blank"

\* "Program STOPS" in line
ProgramSTOPS(l) == l.k = "page"

\* "Total" in line
LineHasTotal(l) == \E j \in 1..Len(l.toks) : HasTotal(l.toks[j])

\* line.strip().startswith("Total")
LineStartsWithTotal(l) == l.k = "row" /\ Len(l.toks) > 0 /\ StartsWithTotal(l.toks[1])

\* The token s occurs in the line before the token t (re.search(r"s.*t")).
TokBefore(l, s, t) ==
    \E a, b \in 1..Len(l.toks) : a < b /\ l.toks[a] = s /\ l.toks[b] = t

HasTok(l, s) == \E a \in 1..Len(l.toks) : l.toks[a] = s

(***************************************************************************)
(* Metadata Harvester.                                                     *)
(***************************************************************************)
\* One preceding line, applied to the metadata gathered so far.  A "page" line
\* is "Program STOPS[ - <rest>]" and toks = <<form, value>> tells what <rest>
\* is: "full" (Version: <v> - <date>), "nodate" (Version: <v>), "nospace"
\* (Version:<v>, with neither space nor date), "plain" (no Version part).
MetaLine(md, l) ==
    IF md.exc # "" THEN md
    ELSE IF l.k = "page" THEN
        LET m1 == [md EXCEPT !.Program = "STOPS"] IN
        CASE l.toks[1] = "full" -> [m1 EXCEPT !.Version = l.toks[2]]
          [] l.toks[1] = "nodate" -> [m1 EXCEPT !.Version = l.toks[2]]
          [] l.toks[1] = "nospace" -> [m1 EXCEPT !.exc = "IndexError"]
          [] OTHER -> m1
    ELSE IF l.k = "ver" THEN [md EXCEPT !.Version = l.toks[1]]
    ELSE IF l.k = "run" THEN
        IF l.toks[2] # "" THEN [md EXCEPT !.Run = l.toks[1], !.System = l.toks[2]]
        ELSE [md EXCEPT !.Run = l.toks[1]]
    ELSE IF l.k = "pageno" THEN [md EXCEPT !.Page = l.toks[1]]
    ELSE md

RECURSIVE MetaFrom(_, _, _, _)
MetaFrom(ls, start_index, meta_line_offset, md) ==
    IF meta_line_offset > 9 THEN md
    ELSE LET meta_line_num == start_index - meta_line_offset IN
         MetaFrom(ls, start_index, meta_line_offset + 1,
                  IF meta_line_num >= 1 THEN MetaLine(md, ls[meta_line_num]) ELSE md)

\* _extract_metadata_from_prn(lines, start_index): a record of the fields found
\* ("" for a field not found), exc set when the harvest raises.
extract_metadata_from_prn(ls, start_index) ==
    MetaFrom(ls, start_index, 1,
             [exc |-> "", Program |-> "", Version |-> "", Run |-> "",
              System |-> "", Page |-> ""])

MetaOf(md) == [Program |-> md.Program, Version |-> md.Version, Run |-> md.Run,
               System |-> md.System, Page |-> md.Page]

(***************************************************************************)
(* The catalog and its process-wide cache.                                 *)
(***************************************************************************)
\* The catalog file is a JSON array of entries; an entry is
\* [table_id, extraction_function, format_type, columns, names] where columns
\* tells the state of its "columns" list: "ok" (a list of {name, width}, whose
\* names are `names`), "missing" (no such key), "null", "noname" or "nowidth"
\* (an item lacks that key).  "" stands for an absent string key.
Entry(tid, fn, ft, columns, names) ==
    [present |-> TRUE, table_id |-> tid, extraction_function |-> fn,
     format_type |-> ft, columns |-> columns, names |-> names]
NoEntry == [present |-> FALSE, table_id |-> "", extraction_function |-> "",
            format_type |-> "", columns |-> "missing", names |-> <<>>]
EmptyCatalog == <<>>
\* The cache _format_config; reads counts the times open(format_file) has run.
NotLoaded == [loaded |-> FALSE, entries |-> EmptyCatalog, reads |-> 0]  \* None
Loaded(entries, reads) == [loaded |-> TRUE, entries |-> entries, reads |-> reads]

\* format_config.get(table_id) on {item['table_id']: item for item in list}: the
\* last item of the list with that id, None (NoEntry) when there is none.
RECURSIVE Lookup(_, _)
Lookup(entries, tid) ==
    IF Len(entries) = 0 THEN NoEntry
    ELSE IF entries[Len(entries)].table_id = tid THEN entries[Len(entries)]
    ELSE Lookup(SubSeq(entries, 1, Len(entries) - 1), tid)

\* _get_table_format_config(config): the value of _format_config after the call,
\* which is also what the call returns.
get_table_format_config_Forgets(cache, cfg, file) ==
    IF ~cache.loaded /\ cfg.has_format_path /\ file.state = "ok"
    THEN Loaded(file.entries, cache.reads + 1)
    ELSE Loaded(EmptyCatalog, cache.reads)

get_table_format_config_Rereads(cache, cfg, file) ==
    IF cfg.has_format_path /\ file.state = "ok"
    THEN Loaded(file.entries, cache.reads + 1)
    ELSE Loaded(EmptyCatalog, cache.reads)

get_table_format_config_RetriesAfterFailure(cache, cfg, file) ==
    IF ~cache.loaded \/ cache.entries = EmptyCatalog THEN
        IF ~cfg.has_format_path THEN Loaded(EmptyCatalog, cache.reads)
        ELSE IF file.state = "missing" THEN Loaded(EmptyCatalog, cache.reads)
        ELSE IF file.state # "ok" THEN Loaded(EmptyCatalog, cache.reads + 1)
        ELSE Loaded(file.entries, cache.reads + 1)
    ELSE cache

get_table_format_config(cache, cfg, file) ==
    IF ~cache.loaded THEN
        IF ~cfg.has_format_path THEN Loaded(EmptyCatalog, cache.reads)
        ELSE IF file.state = "missing" THEN Loaded(EmptyCatalog, cache.reads)
        ELSE IF file.state # "ok" THEN Loaded(EmptyCatalog, cache.reads + 1)
        ELSE Loaded(file.entries, cache.reads + 1)
    ELSE cache

(***************************************************************************)
(* _extract_district_table                                                 *)
(***************************************************************************)
\* stripped_line.startswith("Idist")
StartsWithIdist(l) == l.k = "hdr" /\ Len(l.toks) > 0 /\ l.toks[1] = "Idist"

\* The scan for the header line and the start of the data: the state after
\* line i is st = [in, hdr, start, md].
RECURSIVE DistrictScan(_, _, _, _)
DistrictScan(ls, tid, i, st) ==
    IF i > Len(ls) \/ st.md.exc # "" THEN st
    ELSE LET hit == MarkerMatches(ls[i], tid)
             md1 == IF hit THEN extract_metadata_from_prn(ls, i) ELSE st.md
             in1 == st.in \/ hit
             hdr1 == IF in1 /\ st.hdr = -1 /\ StartsWithIdist(ls[i]) THEN i ELSE st.hdr
         IN  IF md1.exc # "" THEN [st EXCEPT !.md = md1]
             ELSE IF hdr1 # -1 /\ StartsWithEq(ls[i])
                  THEN [in |-> in1, hdr |-> hdr1, start |-> i + 1, md |-> md1]
                  ELSE DistrictScan(ls, tid, i + 1,
                                    [in |-> in1, hdr |-> hdr1, start |-> -1, md |-> md1])

\* The data lines: up to the first line that starts with "Total" or is blank.
RECURSIVE DistrictCollect(_, _)
DistrictCollect(ls, i) ==
    IF i > Len(ls) THEN <<>>
    ELSE IF LineStartsWithTotal(ls[i]) \/ IsBlank(ls[i]) THEN <<>>
    ELSE <<ls[i].toks>> \o DistrictCollect(ls, i + 1)

MaxLen(rows) == CHOOSE m \in {Len(rows[r]) : r \in 1..Len(rows)} :
                    \A r \in 1..Len(rows) : Len(rows[r]) <= m

Take(s, n) == SubSeq(s, 1, IF Len(s) < n THEN Len(s) ELSE n)

\* One field of pd.DataFrame(parsed_rows, columns=...): a short row is padded
\* with None.
FieldOr(row, c) == IF c <= Len(row) THEN Str(row[c]) ELSE NaN

\* pd.to_numeric(df[col], errors='coerce').fillna(0).astype(int), one cell
CoerceInt(v) == AsInt(FillNa0(IF v.t = "str" THEN ToNumeric(v.s) ELSE NaN))

extract_district_table(ls, tid, cache) ==
    LET sc == DistrictScan(ls, tid, 1,
                           [in |-> FALSE, hdr |-> -1, start |-> -1,
                            md |-> extract_metadata_from_prn(<<>>, 0)])
    IN
    IF sc.md.exc # "" THEN Raise(sc.md.exc, cache)
    ELSE IF sc.start = -1 \/ sc.hdr = -1 THEN ReturnDiag("no header row", MetaOf(sc.md), cache)
    ELSE
    LET h0 == ls[sc.hdr].toks
        headers == IF Lower(h0[1]) \in {"idist", "district"}
                   THEN <<"Origin_District">> \o Tail(h0) ELSE h0
        data_lines == DistrictCollect(ls, sc.start)
        parsed_rows == SelectSeq(data_lines, LAMBDA parts : Len(parts) > 1)
    IN
    IF Len(data_lines) = 0 \/ Len(parsed_rows) = 0
    THEN Return(EmptyDF, MetaOf(sc.md), cache)
    ELSE
    LET n0 == Len(parsed_rows[1])
        trunc == Len(headers) < n0
        rows1 == IF trunc
                 THEN [r \in 1..Len(parsed_rows) |-> Take(parsed_rows[r], Len(headers))]
                 ELSE parsed_rows
        num_data_cols == IF trunc THEN Len(headers) ELSE n0
        cols == Take(headers, num_data_cols)
    IN
    IF MaxLen(rows1) # Len(cols) THEN Raise("ValueError", cache)
    ELSE Return(
        [cols |-> cols,
         rows |-> [r \in 1..Len(rows1) |->
                     [c \in 1..Len(cols) |->
                        IF cols[c] # "Origin_District"
                        THEN CoerceInt(FieldOr(rows1[r], c))
                        ELSE FieldOr(rows1[r], c)]]],
        MetaOf(sc.md), cache)

(***************************************************************************)
(* DataFrame helpers.                                                      *)
(***************************************************************************)
\* The default missing-value tokens of pandas' readers met in the model: a
\* blank field and the text "NA" both read as NaN, also under dtype=str.
NaTokens == {"", "NA"}

\* pd.read_fwf(StringIO('\n'.join(rows)), colspecs, header=None, names, dtype=str):
\* field c of a row is the text its colspec slices, stripped.
read_fwf(rows, names) ==
    [cols |-> names,
     rows |-> [r \in 1..Len(rows) |->
                 [c \in 1..Len(names) |->
                    IF c <= Len(rows[r].toks) /\ rows[r].toks[c] \notin NaTokens
                    THEN Str(rows[r].toks[c]) ELSE NaN]]]

HasCol(df, name) == \E c \in 1..Len(df.cols) : df.cols[c] = name
ColIdx(df, name) == CHOOSE c \in 1..Len(df.cols) : df.cols[c] = name
Cell(df, r, name) == df.rows[r][ColIdx(df, name)]
Column(df, name) == [r \in 1..Len(df.rows) |-> Cell(df, r, name)]

\* df[name] = values (a new name is appended as the last column)
SetColumn(df, name, values) ==
    IF HasCol(df, name)
    THEN [df EXCEPT !.rows = [r \in 1..Len(df.rows) |->
                                [df.rows[r] EXCEPT ![ColIdx(df, name)] = values[r]]]]
    ELSE [cols |-> Append(df.cols, name),
          rows |-> [r \in 1..Len(df.rows) |-> Append(df.rows[r], values[r])]]

\* df.at[row, name] = v
SetCell(df, r, name, v) ==
    SetColumn(df, name,
              [q \in 1..Len(df.rows) |->
                 IF q = r THEN v ELSE IF HasCol(df, name) THEN Cell(df, q, name) ELSE NaN])

\* The columns at the given positions, in that order.
SelectCols(df, idx) ==
    [cols |-> [c \in 1..Len(idx) |-> df.cols[idx[c]]],
     rows |-> [r \in 1..Len(df.rows) |-> [c \in 1..Len(idx) |-> df.rows[r][idx[c]]]]]

\* The rows at the given positions, in that order.
SelectRows(df, idx) == [df EXCEPT !.rows = [r \in 1..Len(idx) |-> df.rows[idx[r]]]]

\* The positions 1..n that satisfy keep, in increasing order.
RECURSIVE Kept(_, _)
Kept(n, keep) ==
    IF n = 0 THEN <<>>
    ELSE IF n \in keep THEN Append(Kept(n - 1, keep), n) ELSE Kept(n - 1, keep)

Max(S) == CHOOSE m \in S : \A x \in S : x <= m

\* Series.ffill()
ffill(col) ==
    [r \in 1..Len(col) |->
       LET known == {q \in 1..r : col[q].t # "nan"} IN
       IF known = {} THEN NaN ELSE col[Max(known)]]

\* sub in name, for the column and header names of the model
NameHas(name, sub) ==
    CASE sub = "Hours" -> name \in {"Rev_Hours", "Hours"}
      [] sub = "Miles" -> name \in {"Rev_Miles"}
      [] sub = "Route_Name" ->
            name \in {"Route_Name", "to_Route_Name", "EXISTING_from_Route_Name"}
      [] sub = "Transfers" -> name \in {"EXISTING_Transfers"}
      [] OTHER -> name = sub

\* col.startswith('_sep')
IsSepCol(name) == name \in {"_sep1", "_sep2"}

\* s.startswith('--')
StartsWithDashes(s) == s \in {"--Red", "--total"}

\* s.lstrip(' -')
LstripDash(s) ==
    CASE s = "--Red" -> "Red"
      [] s = "--total" -> "total"
      [] OTHER -> s

\* s.startswith('. . .')
StartsWithDots(s) == s = ". . ."

\* pd.to_numeric(df[col].astype(str).str.replace(',', ''), errors='coerce'), one cell
CoerceComma(v) == IF v.t = "str" THEN ToNumeric(RemoveCommas(v.s)) ELSE NaN

\* pd.to_numeric(df[col], errors='coerce'), one cell
Coerce(v) == IF v.t = "str" THEN ToNumeric(v.s) ELSE NaN

\* The cells of the columns whose name satisfies P, changed by F.
MapCols(df, P(_), F(_)) ==
    [df EXCEPT !.rows = [r \in 1..Len(df.rows) |->
        [c \in 1..Len(df.cols) |->
            IF P(df.cols[c]) THEN F(df.rows[r][c]) ELSE df.rows[r][c]]]]

\* Series.str.<f>() leaves a missing value missing.
OnStr(v, F(_)) == IF v.t = "str" THEN Str(F(v.s)) ELSE v

(***************************************************************************)
(* The static column layout of a catalog entry.                            *)
(***************************************************************************)
\* table_format["columns"] with its names and widths read in the try block:
\* ok is FALSE where the code catches KeyError or TypeError.
StaticColumns(entry) ==
    [ok |-> entry.present /\ entry.columns = "ok", names |-> entry.names]

(***************************************************************************)
(* Locating a table: title, header anchor, '=' separator.                  *)
(***************************************************************************)
\* The header anchor of each extraction function.
HeaderAnchor(fn, l) ==
    CASE fn = "_extract_table_9_01_from_prn" -> HasTok(l, "Stop_id1")
      [] fn = "_extract_table_10_01_from_prn" -> HasTok(l, "Route_ID")
      [] fn = "_extract_table_10_02_from_prn" -> TokBefore(l, "Route_ID", "Count")
      [] fn = "_extract_table_10_03_04_from_prn" -> TokBefore(l, "Route_ID", "Hours")
      [] fn = "_extract_table_10_05_from_prn" -> TokBefore(l, "Route_ID", "ALL")
      [] OTHER -> FALSE

\* for i, line in enumerate(lines): the state after the loop, st = [in, start, md].
RECURSIVE AnchorScan(_, _, _, _, _)
AnchorScan(fn, ls, tid, i, st) ==
    IF i > Len(ls) THEN st
    ELSE LET hit == MarkerMatches(ls[i], tid)
             md1 == IF hit THEN extract_metadata_from_prn(ls, i) ELSE st.md
             in1 == st.in \/ hit
         IN  IF md1.exc # "" THEN [st EXCEPT !.md = md1]
             ELSE IF in1 /\ HeaderAnchor(fn, ls[i])
                     /\ i + 1 <= Len(ls) /\ StartsWithEq(ls[i + 1])
                  THEN [in |-> in1, start |-> i + 2, md |-> md1]
                  ELSE AnchorScan(fn, ls, tid, i + 1,
                                  [in |-> in1, start |-> -1, md |-> md1])

ScanStart_InSection ==
    [in |-> TRUE, start |-> -1, md |-> extract_metadata_from_prn(<<>>, 0)]

ScanStart == [in |-> FALSE, start |-> -1, md |-> extract_metadata_from_prn(<<>>, 0)]

\* re.fullmatch(r"={2,}", line.strip()) / re.fullmatch(r"-{2,}", line.strip())
FullSep(l) == l.k \in {"sep", "sepshort"}
FullDash(l) == l.k = "dash"

\* The row collection of Tables 9.01, 10.01, 10.03/10.04 and 10.05: the first
\* line containing "Total" is kept and ends it.
RECURSIVE CollectToTotal(_, _)
CollectToTotal(ls, i) ==
    IF i > Len(ls) THEN <<>>
    ELSE IF LineHasTotal(ls[i]) THEN <<ls[i]>>
    ELSE IF AnyMarker(ls[i]) \/ (~IsBlank(ls[i]) /\ ProgramSTOPS(ls[i])) THEN <<>>
    ELSE IF ~IsBlank(ls[i]) /\ ~FullSep(ls[i]) /\ ~FullDash(ls[i])
         THEN <<ls[i]>> \o CollectToTotal(ls, i + 1)
         ELSE CollectToTotal(ls, i + 1)

\* The closing step of Tables 9.01, 10.01, 10.03/10.04 and 10.05: a last row
\* whose name is "total" in any letter case gets "Total" in both label columns.
TotalLastRow_CaseSensitive(df, name_col, id_col) ==
    LET last == Len(df.rows) IN
    IF last > 0 /\ Cell(df, last, name_col) = Str("Total")
    THEN SetCell(df, last, id_col, Str("Total"))
    ELSE df

TotalLastRow(df, name_col, id_col) ==
    LET last == Len(df.rows) IN
    IF last > 0 /\ Cell(df, last, name_col).t = "str"
          /\ Lower(Cell(df, last, name_col).s) = "total"
    THEN SetCell(SetCell(df, last, name_col, Str("Total")), last, id_col, Str("Total"))
    ELSE df

(***************************************************************************)
(* The extraction functions that read a static layout from the catalog.    *)
(* env = [cache, config, catfile] is what _get_table_format_config reads.  *)
(***************************************************************************)
FormatConfig(env) == get_table_format_config(env.cache, env.config, env.catfile)

\* The steps shared by the static extractors, after the rows are located:
\* resolve the layout, collect, materialize.  M(df) is the cleanup of the
\* function; it yields [exc, df].
StaticTable(ls, tid, env, md, rows, M(_)) ==
    LET fc == FormatConfig(env)
        cs == StaticColumns(Lookup(fc.entries, tid))
    IN  IF ~cs.ok THEN ReturnDiag("invalid columns", MetaOf(md), fc)
        ELSE IF Len(rows) = 0 THEN Return(EmptyDF, MetaOf(md), fc)
        ELSE LET m == M(read_fwf(rows, cs.names)) IN
             IF m.exc # "" THEN Raise(m.exc, fc) ELSE Return(m.df, MetaOf(md), fc)

Ok(df) == [exc |-> "", df |-> df]
Fail(e) == [exc |-> e, df |-> EmptyDF]

\* .fillna(0).astype(int) after to_numeric with the thousands separators removed
CommaInt(v) == AsInt(FillNa0(CoerceComma(v)))
\* .fillna(0).astype(int) after to_numeric of the cell as it is
PlainInt(v) == AsInt(FillNa0(Coerce(v)))
\* .fillna(0) after to_numeric of the cell as it is: a float column
PlainFloat(v) == FillNa0(Coerce(v))

Clean_9_01(df) ==
    LET d1 == MapCols(df, LAMBDA c : c \notin {"Stop_id1", "Station_Name"}, CommaInt)
    IN  Ok(IF HasCol(d1, "Station_Name")
           THEN TotalLastRow(d1, "Station_Name", "Stop_id1") ELSE d1)

extract_table_9_01_from_prn(ls, tid, env) ==
    LET sc == AnchorScan("_extract_table_9_01_from_prn", ls, tid, 1, ScanStart) IN
    IF sc.md.exc # "" THEN Raise(sc.md.exc, env.cache)
    ELSE IF sc.start = -1 THEN Return(EmptyDF, MetaOf(sc.md), env.cache)
    ELSE StaticTable(ls, tid, env, sc.md, CollectToTotal(ls, sc.start), Clean_9_01)

Labels_10_01 == {"Route_ID", "Route_Name", "Station_Name", "Stop_id1", "Group_Name",
                 "HH_Cars", "Sub_mode", "Access_mode"}

Clean_10_01(df) ==
    LET d1 == MapCols(df, LAMBDA c : c \notin Labels_10_01, CommaInt)
    IN  Ok(IF HasCol(d1, "Route_Name")
           THEN TotalLastRow(d1, "Route_Name", "Route_ID") ELSE d1)

extract_table_10_01_from_prn(ls, tid, env) ==
    LET sc == AnchorScan("_extract_table_10_01_from_prn", ls, tid, 1, ScanStart) IN
    IF sc.md.exc # "" THEN Raise(sc.md.exc, env.cache)
    ELSE IF sc.start = -1 THEN Return(EmptyDF, MetaOf(sc.md), env.cache)
    ELSE StaticTable(ls, tid, env, sc.md, CollectToTotal(ls, sc.start), Clean_10_01)

\* df['Route_Name'].str.lstrip(' -'), when the column exists
LstripRouteName(df) ==
    MapCols(df, LAMBDA c : c = "Route_Name", LAMBDA v : OnStr(v, LstripDash))

Clean_10_03_04(df) ==
    LET d1 == LstripRouteName(df)
        d2 == MapCols(d1, LAMBDA c : NameHas(c, "Miles") \/ NameHas(c, "Hours"),
                      PlainFloat)
        d3 == MapCols(d2, LAMBDA c : ~(NameHas(c, "Miles") \/ NameHas(c, "Hours"))
                                        /\ c \notin {"Route_ID", "Route_Name"},
                      PlainInt)
    IN  IF ~HasCol(d3, "Route_Name") THEN Fail("KeyError")
        ELSE Ok(TotalLastRow(d3, "Route_Name", "Route_ID"))

extract_table_10_03_04_from_prn(ls, tid, env) ==
    LET sc == AnchorScan("_extract_table_10_03_04_from_prn", ls, tid, 1, ScanStart) IN
    IF sc.md.exc # "" THEN Raise(sc.md.exc, env.cache)
    ELSE IF sc.start = -1 THEN Return(EmptyDF, MetaOf(sc.md), env.cache)
    ELSE StaticTable(ls, tid, env, sc.md, CollectToTotal(ls, sc.start), Clean_10_03_04)

Clean_10_05(df) ==
    LET d1 == LstripRouteName(df)
        d2 == MapCols(d1, LAMBDA c : c \notin {"Route_ID", "Route_Name"}, CommaInt)
    IN  Ok(IF HasCol(d2, "Route_Name")
           THEN TotalLastRow(d2, "Route_Name", "Route_ID") ELSE d2)

extract_table_10_05_from_prn(ls, tid, env) ==
    LET sc == AnchorScan("_extract_table_10_05_from_prn", ls, tid, 1, ScanStart) IN
    IF sc.md.exc # "" THEN Raise(sc.md.exc, env.cache)
    ELSE IF sc.start = -1 THEN Return(EmptyDF, MetaOf(sc.md), env.cache)
    ELSE StaticTable(ls, tid, env, sc.md, CollectToTotal(ls, sc.start), Clean_10_05)

\* The scan of Tables 10.06 and 12.01: the first line at or after the title
\* that starts with '=' (eight of them for 12.01); the data start on the next.
RECURSIVE SepScan(_, _, _, _, _)
SepScan(fn, ls, tid, i, st) ==
    IF i > Len(ls) THEN st
    ELSE LET hit == MarkerMatches(ls[i], tid)
             md1 == IF hit THEN extract_metadata_from_prn(ls, i) ELSE st.md
             in1 == st.in \/ hit
             sep == IF fn = "_extract_table_12_01_from_prn"
                    THEN StartsWithEq8(ls[i]) ELSE StartsWithEq(ls[i])
         IN  IF md1.exc # "" THEN [st EXCEPT !.md = md1]
             ELSE IF in1 /\ sep THEN [in |-> in1, start |-> i + 1, md |-> md1]
             ELSE SepScan(fn, ls, tid, i + 1, [in |-> in1, start |-> -1, md |-> md1])

\* The row collection of Table 12.01: a line starting with "Total" ends it and
\* is left out.
RECURSIVE Collect_12_01(_, _)
Collect_12_01(ls, i) ==
    IF i > Len(ls) THEN <<>>
    ELSE IF LineStartsWithTotal(ls[i]) THEN <<>>
    ELSE IF AnyMarker(ls[i]) \/ (~IsBlank(ls[i]) /\ ProgramSTOPS(ls[i])) THEN <<>>
    ELSE IF ~IsBlank(ls[i]) THEN <<ls[i]>> \o Collect_12_01(ls, i + 1)
    ELSE Collect_12_01(ls, i + 1)

Clean_12_01(df) == Ok(MapCols(df, LAMBDA c : c \notin {"District"}, PlainInt))

extract_table_12_01_from_prn(ls, tid, env) ==
    LET sc == SepScan("_extract_table_12_01_from_prn", ls, tid, 1, ScanStart) IN
    IF sc.md.exc # "" THEN Raise(sc.md.exc, env.cache)
    ELSE IF sc.start = -1 THEN Return(EmptyDF, MetaOf(sc.md), env.cache)
    ELSE StaticTable(ls, tid, env, sc.md, Collect_12_01(ls, sc.start), Clean_12_01)

(***************************************************************************)
(* _extract_table_10_02_from_prn                                           *)
(***************************************************************************)
\* re.fullmatch(r"[-=]{2,}", line.strip())
FullSepOrDash(l) == FullSep(l) \/ FullDash(l)

RECURSIVE Collect_10_02(_, _)
Collect_10_02(ls, i) ==
    IF i > Len(ls) THEN <<>>
    ELSE IF AnyMarker(ls[i]) \/ ProgramSTOPS(ls[i]) THEN <<>>
    ELSE IF IsBlank(ls[i]) \/ FullSepOrDash(ls[i]) THEN Collect_10_02(ls, i + 1)
    ELSE <<ls[i]>> \o Collect_10_02(ls, i + 1)

IsStrLower(v, s) == v.t = "str" /\ Lower(v.s) = s

\* for col in df.columns: if col not in [labels]: pd.to_numeric(...), with no
\* fillna after it.
Numeric_10_02(df) ==
    MapCols(df, LAMBDA c : c \notin {"Route_ID", "Route_Name", "Group_Name"}, CoerceComma)

Clean_10_02(df) ==
    IF ~HasCol(df, "Route_ID") \/ ~HasCol(df, "Group_Name") THEN Fail("KeyError")
    ELSE
    LET n == Len(df.rows)
        d1 == SetColumn(df, "Route_ID", ffill(Column(df, "Route_ID")))
        g == Column(d1, "Group_Name")
        d2 == SetColumn(d1, "Route_Name",
                        ffill([r \in 1..n |->
                                 IF g[r].t = "str" /\ StartsWithDashes(g[r].s)
                                 THEN g[r] ELSE NaN]))
        d3 == SetColumn(d2, "Group_Name",
                        [r \in 1..n |->
                           IF g[r].t = "str" /\ StartsWithDashes(g[r].s) THEN NaN ELSE g[r]])
        is_total_header == {r \in 1..n : IsStrLower(Cell(d3, r, "Route_ID"), "total")}
        d4 == SetColumn(d3, "Route_Name",
                        [r \in 1..n |-> IF r \in is_total_header THEN Str("Total")
                                        ELSE Cell(d3, r, "Route_Name")])
        is_total_group_name ==
            {r \in 1..n : IsStrLower(Cell(d4, r, "Group_Name"), "total")}
        d5 == SetColumn(d4, "Group_Name",
                        [r \in 1..n |-> IF r \in is_total_group_name THEN Str("Total")
                                        ELSE Cell(d4, r, "Group_Name")])
        d6 == SetColumn(d5, "Route_Name",
                        [r \in 1..n |-> IF r \in is_total_group_name THEN Str("Total")
                                        ELSE Cell(d5, r, "Route_Name")])
        static_cols == <<"Route_ID", "Route_Name", "Group_Name">>
        dynamic == Kept(Len(df.cols),
                        {c \in 1..Len(df.cols) :
                            df.cols[c] \notin {"Route_ID", "Route_Name", "Group_Name"}})
        d7 == SelectCols(d6, [c \in 1..3 |-> ColIdx(d6, static_cols[c])] \o dynamic)
    IN  Ok(Numeric_10_02(d7))

extract_table_10_02_from_prn(ls, tid, env) ==
    LET sc == AnchorScan("_extract_table_10_02_from_prn", ls, tid, 1, ScanStart) IN
    IF sc.md.exc # "" THEN Raise(sc.md.exc, env.cache)
    ELSE IF sc.start = -1 THEN Return(EmptyDF, MetaOf(sc.md), env.cache)
    ELSE StaticTable(ls, tid, env, sc.md, Collect_10_02(ls, sc.start), Clean_10_02)

(***************************************************************************)
(* _extract_table_10_06_from_prn                                           *)
(***************************************************************************)
\* The first non-blank field of a line ("" when it has none).
FirstText(l) ==
    LET P == {j \in 1..Len(l.toks) : l.toks[j] # ""} IN
    IF P = {} THEN "" ELSE l.toks[CHOOSE j \in P : \A q \in P : j <= q]

\* re.search(r"^\s*\.", line)
StartsWithDot(l) == FirstText(l) \in {". . .", "..."}

RECURSIVE Collect_10_06(_, _)
Collect_10_06(ls, i) ==
    IF i > Len(ls) THEN <<>>
    ELSE IF IsBlank(ls[i]) \/ LineHasTotal(ls[i]) \/ StartsWithDot(ls[i])
            \/ AnyMarker(ls[i]) THEN <<>>
    ELSE <<ls[i]>> \o Collect_10_06(ls, i + 1)

\* df.drop(columns=[col for col in df.columns if col.startswith('_sep')])
DropSepCols_KeepAll(df) == df

DropSepCols(df) ==
    SelectCols(df, Kept(Len(df.cols), {c \in 1..Len(df.cols) : ~IsSepCol(df.cols[c])}))

Clean_10_06(df) ==
    LET d1 == DropSepCols(df) IN
    IF ~HasCol(d1, "to_Route_ID") \/ ~HasCol(d1, "to_Route_Name")
       \/ ~HasCol(d1, "EXISTING_from_Route_ID") THEN Fail("KeyError")
    ELSE
    LET d2 == SetColumn(d1, "to_Route_ID", ffill(Column(d1, "to_Route_ID")))
        d3 == SetColumn(d2, "to_Route_Name", ffill(Column(d2, "to_Route_Name")))
        d4 == SelectRows(d3, Kept(Len(d3.rows),
                  {r \in 1..Len(d3.rows) : Cell(d3, r, "EXISTING_from_Route_ID").t # "nan"}))
        d5 == MapCols(d4, LAMBDA c : NameHas(c, "Route_Name"),
                      LAMBDA v : OnStr(v, LstripDash))
        d6 == MapCols(d5, LAMBDA c : NameHas(c, "Transfers"), PlainInt)
    IN  Ok(d6)

extract_table_10_06_from_prn(ls, tid, env) ==
    LET sc == SepScan("_extract_table_10_06_from_prn", ls, tid, 1, ScanStart) IN
    IF sc.md.exc # "" THEN Raise(sc.md.exc, env.cache)
    ELSE IF sc.start = -1 THEN Return(EmptyDF, MetaOf(sc.md), env.cache)
    ELSE IF Len(Collect_10_06(ls, sc.start)) = 0
         THEN Return(EmptyDF, MetaOf(sc.md), env.cache)
    ELSE StaticTable(ls, tid, env, sc.md, Collect_10_06(ls, sc.start), Clean_10_06)

(***************************************************************************)
(* _extract_table_11_XX_from_prn                                           *)
(***************************************************************************)
\* re.search(r"^[=-]+\s*.*", line.strip()): the line starts with '=' or '-'
StartsEqDash(l) ==
    l.k \in {"sep", "sepshort", "sepx", "dash"} \/ StartsWithDashes(FirstText(l))

\* After the rule line i: the first of the next five lines that is neither
\* blank nor a rule, else the line after the rule.
DataStart_11(ls, i) ==
    LET hi == IF i + 5 < Len(ls) THEN i + 5 ELSE Len(ls)
        P == {j \in (i + 1)..hi : ~IsBlank(ls[j]) /\ ~StartsEqDash(ls[j])}
    IN  IF P = {} THEN i + 1 ELSE CHOOSE j \in P : \A q \in P : j <= q

RECURSIVE Scan_11_XX(_, _, _, _)
Scan_11_XX(ls, tid, i, st) ==
    IF i > Len(ls) THEN st
    ELSE LET hit == MarkerMatches(ls[i], tid)
             md1 == IF hit THEN extract_metadata_from_prn(ls, i) ELSE st.md
             in1 == st.in \/ hit
         IN  IF md1.exc # "" THEN [st EXCEPT !.md = md1]
             ELSE IF in1 /\ StartsEqDash(ls[i]) /\ i + 1 <= Len(ls)
                  THEN [in |-> in1, start |-> DataStart_11(ls, i), md |-> md1]
                  ELSE Scan_11_XX(ls, tid, i + 1, [in |-> in1, start |-> -1, md |-> md1])

\* "..." in line
HasEllipsis(l) == \E j \in 1..Len(l.toks) : l.toks[j] = "..."

RECURSIVE Collect_11_XX(_, _)
Collect_11_XX(ls, i) ==
    IF i > Len(ls) THEN <<>>
    ELSE IF AnyMarker(ls[i]) \/ ProgramSTOPS(ls[i]) \/ HasEllipsis(ls[i]) THEN <<>>
    ELSE IF IsBlank(ls[i]) \/ StartsEqDash(ls[i]) THEN Collect_11_XX(ls, i + 1)
    ELSE <<ls[i]>> \o Collect_11_XX(ls, i + 1)

Clean_11_XX(df) ==
    LET d1 == DropSepCols(df) IN
    IF ~HasCol(d1, "HH_Cars") \/ ~HasCol(d1, "Sub_mode") THEN Fail("KeyError")
    ELSE
    LET d2 == SelectRows(d1, Kept(Len(d1.rows),
                  {r \in 1..Len(d1.rows) :
                      ~(Cell(d1, r, "HH_Cars").t = "str"
                        /\ StartsWithDots(Cell(d1, r, "HH_Cars").s))}))
        d3 == MapCols(d2, LAMBDA c : c \notin {"HH_Cars", "Sub_mode", "Access_mode"},
                      CommaInt)
        d4 == SetColumn(d3, "HH_Cars", ffill(Column(d3, "HH_Cars")))
        d5 == SetColumn(d4, "Sub_mode", ffill(Column(d4, "Sub_mode")))
    IN  Ok(d5)

extract_table_11_XX_from_prn(ls, tid, env) ==
    LET sc == Scan_11_XX(ls, tid, 1, ScanStart) IN
    IF sc.md.exc # "" THEN Raise(sc.md.exc, env.cache)
    ELSE IF sc.start = -1 THEN Return(EmptyDF, MetaOf(sc.md), env.cache)
    ELSE
    LET fc == FormatConfig(env)
        entry == Lookup(fc.entries, tid)
    IN  IF ~entry.present \/ entry.format_type # "fixed_width"
        THEN ReturnDiag("no fixed_width format", MetaOf(sc.md), fc)
        ELSE StaticTable(ls, tid, env, sc.md, Collect_11_XX(ls, sc.start), Clean_11_XX)

\* getattr(StopsPRNExtractor, function_name)(file_path, table_id, config)
Apply(fn, ls, tid, env) ==
    CASE fn = "_extract_table_9_01_from_prn" -> extract_table_9_01_from_prn(ls, tid, env)
      [] fn = "_extract_table_10_01_from_prn" -> extract_table_10_01_from_prn(ls, tid, env)
      [] fn = "_extract_table_10_02_from_prn" -> extract_table_10_02_from_prn(ls, tid, env)
      [] fn = "_extract_table_10_03_04_from_prn" ->
            extract_table_10_03_04_from_prn(ls, tid, env)
      [] fn = "_extract_table_10_05_from_prn" -> extract_table_10_05_from_prn(ls, tid, env)
      [] fn = "_extract_table_10_06_from_prn" -> extract_table_10_06_from_prn(ls, tid, env)
      [] fn = "_extract_table_12_01_from_prn" -> extract_table_12_01_from_prn(ls, tid, env)
      [] fn = "_extract_table_11_XX_from_prn" -> extract_table_11_XX_from_prn(ls, tid, env)
      [] OTHER -> extract_district_table(ls, tid, env.cache)

(***************************************************************************)
(* Inputs of the unit calls.                                               *)
(***************************************************************************)
\* All sequences over S of a length from lo to hi.
SeqsOf(S, lo, hi) == UNION {[1..k -> S] : k \in lo..hi}

\* No column layout is being built.
IdleLayout == widths = <<>> /\ header_info = <<>> /\ colspecs = <<>> /\ col_names = <<>>
UnchangedLayout == UNCHANGED <<widths, header_info, colspecs, col_names>>

\* main is not part of the behaviour.
IdleMain ==
    /\ extraction_config = "None" /\ reporting_config = "None" /\ status = -1
    /\ IdleLayout
UnchangedMain ==
    /\ UNCHANGED <<extraction_config, reporting_config, status>>
    /\ UnchangedLayout

\* run_extraction is not running.
IdleRun ==
    /\ files = <<>> /\ tables = <<>> /\ fi = 0 /\ ti = 0
    /\ csv = {} /\ log = <<>> /\ calls = <<>>
    /\ IdleMain

UnchangedRun ==
    /\ UNCHANGED <<files, tables, fi, ti, csv, log, calls>>
    /\ UnchangedMain
UnchangedInput == UNCHANGED <<config, catfile, family, table_id, lines>>

(***************************************************************************)
(* Unit calls of the catalog-driven extraction functions: one document     *)
(* holding a section of the table (title, header, separator, data rows)   *)
(* and a catalog holding the layout of the table.                          *)
(***************************************************************************)
StaticFns == {"_extract_table_9_01_from_prn", "_extract_table_10_01_from_prn",
              "_extract_table_10_02_from_prn", "_extract_table_10_03_04_from_prn",
              "_extract_table_10_05_from_prn", "_extract_table_10_06_from_prn",
              "_extract_table_12_01_from_prn", "_extract_table_11_XX_from_prn"}

\* The table each function is registered for in the catalog of the model.
TableOf(fn) ==
    CASE fn = "_extract_table_9_01_from_prn" -> "9.01"
      [] fn = "_extract_table_10_01_from_prn" -> "10.01"
      [] fn = "_extract_table_10_02_from_prn" -> "10.02"
      [] fn = "_extract_table_10_03_04_from_prn" -> "10.03"
      [] fn = "_extract_table_10_05_from_prn" -> "10.05"
      [] fn = "_extract_table_10_06_from_prn" -> "10.06"
      [] fn = "_extract_table_12_01_from_prn" -> "12.01"
      [] fn = "_extract_table_11_XX_from_prn" -> "11.01"
      [] OTHER -> "13.01"

\* The columns of the catalog entry of each function.
NamesOf(fn) ==
    CASE fn = "_extract_table_9_01_from_prn" -> <<"Stop_id1", "Station_Name", "WLK">>
      [] fn = "_extract_table_10_01_from_prn" -> <<"Route_ID", "Route_Name", "Count">>
      [] fn = "_extract_table_10_02_from_prn" -> <<"Route_ID", "Group_Name", "Count">>
      [] fn = "_extract_table_10_03_04_from_prn" ->
            <<"Route_ID", "Route_Name", "Rev_Hours">>
      [] fn = "_extract_table_10_05_from_prn" -> <<"Route_ID", "Route_Name", "ALL">>
      [] fn = "_extract_table_10_06_from_prn" ->
            <<"to_Route_ID", "to_Route_Name", "_sep1", "EXISTING_from_Route_ID",
              "EXISTING_Transfers">>
      [] fn = "_extract_table_12_01_from_prn" -> <<"District", "Trips">>
      [] fn = "_extract_table_11_XX_from_prn" ->
            <<"HH_Cars", "Sub_mode", "_sep1", "Trips">>
      [] OTHER -> <<>>

\* The header line of the section of each function.
HeaderOfFn(fn) ==
    CASE fn = "_extract_table_9_01_from_prn" ->
            Header(<<"Stop_id1", "Station_Name", "WLK", "KNR">>)
      [] fn = "_extract_table_10_01_from_prn" ->
            Header(<<"Route_ID", "Route_Name", "Count">>)
      [] fn = "_extract_table_10_02_from_prn" ->
            Header(<<"Route_ID", "Group_Name", "Count">>)
      [] fn = "_extract_table_10_03_04_from_prn" ->
            Header(<<"Route_ID", "Route_Name", "Hours">>)
      [] fn = "_extract_table_10_05_from_prn" ->
            Header(<<"Route_ID", "Route_Name", "ALL">>)
      [] OTHER -> Header(<<"Columns">>)

NumCells == {"7", "", "x", "1,234"}

\* The data lines of each function, by their fixed-width fields.
RowsOfFn(fn) ==
    CASE fn = "_extract_table_10_02_from_prn" ->
            {Row(<<id, g, n>>) : id \in {"R1", "", "NA", "total"},
                                 g \in {"--Red", "Peak", "Total"}, n \in {"7", ""}}
      [] fn = "_extract_table_10_06_from_prn" ->
            {Row(<<t, tn, "", f, n>>) : t \in {"R1", "", "NA"}, tn \in {"--Red", ""},
                                        f \in {"R2", ""}, n \in {"7", "x"}}
      [] fn = "_extract_table_12_01_from_prn" ->
            {Row(<<d, n>>) : d \in {"D1", "Total"}, n \in NumCells}
      [] fn = "_extract_table_11_XX_from_prn" ->
            {Row(<<h, m, "", n>>) : h \in {"0 car", "", "NA", ". . ."},
                                    m \in {"Bus", ""}, n \in {"7", "", "1,234"}}
      [] OTHER ->
            {Row(<<id, name, n>>) : id \in {"S1", ""},
                                    name \in {"Main", "total", "Total"}, n \in NumCells}

CatalogOf(fn) == <<Entry(TableOf(fn), fn, "fixed_width", "ok", NamesOf(fn))>>

SectionDocs(fn) ==
    {<<Page("full", "2.50"), Marker(TableOf(fn)), HeaderOfFn(fn), Sep>> \o rows \o tail :
        rows \in SeqsOf(RowsOfFn(fn), 1, MaxRows),
        tail \in {<<>>, <<Blank, Marker("13.01")>>}}

InitTable ==
    /\ pc = "start"
    /\ family \in StaticFns
    /\ table_id = TableOf(family)
    /\ lines \in SectionDocs(family)
    /\ config = [has_format_path |-> TRUE]
    /\ catfile = [state |-> "ok", entries |-> CatalogOf(family)]
    /\ format_config = NotLoaded
    /\ result = NoResult
    /\ IdleRun

Env == [cache |-> format_config, config |-> config, catfile |-> catfile]

\* One call extraction_func(file_path, table_id, config) of the function fn.
Call(fn) ==
    /\ pc = "start"
    /\ family = fn
    /\ result' = Apply(fn, lines, table_id, Env)
    /\ format_config' = result'.fc
    /\ pc' = "done"
    /\ UnchangedInput /\ UnchangedRun

Call_9_01 == Call("_extract_table_9_01_from_prn")
Call_10_01 == Call("_extract_table_10_01_from_prn")
Call_10_02 == Call("_extract_table_10_02_from_prn")
Call_10_03_04 == Call("_extract_table_10_03_04_from_prn")
Call_10_05 == Call("_extract_table_10_05_from_prn")
Call_10_06 == Call("_extract_table_10_06_from_prn")
Call_12_01 == Call("_extract_table_12_01_from_prn")
Call_11_XX == Call("_extract_table_11_XX_from_prn")

NextTable ==
    \/ Call_9_01 \/ Call_10_01 \/ Call_10_02 \/ Call_10_03_04
    \/ Call_10_05 \/ Call_10_06 \/ Call_12_01 \/ Call_11_XX

SpecTable == InitTable /\ [][NextTable]_vars

(***************************************************************************)
(* Unit calls on documents that vary what the scanner looks for: the title,  *)
(* a second title before the header, the header line, the distance from the  *)
(* header to the separator, and the separator itself.                        *)
(***************************************************************************)
\* One ordinary data line of each function.
ScanRow(fn) ==
    CASE fn = "_extract_table_10_02_from_prn" -> Row(<<"R1", "Peak", "7">>)
      [] fn = "_extract_table_10_06_from_prn" -> Row(<<"R1", "--Red", "", "R2", "7">>)
      [] fn = "_extract_table_12_01_from_prn" -> Row(<<"D1", "7">>)
      [] fn = "_extract_table_11_XX_from_prn" -> Row(<<"0 car", "Bus", "", "7">>)
      [] OTHER -> Row(<<"S1", "Main", "7">>)

\* A line of text that is no header of any table.
TextLine == Header(<<"Columns">>)

ScanDocs(fn) ==
    {<<Marker(m)>> \o second \o h \o gap \o <<sp>> \o rows :
        m \in {TableOf(fn), LongerId(TableOf(fn)), "2.04"},
        second \in {<<>>, <<Marker("2.04")>>},
        h \in {<<HeaderOfFn(fn)>>, <<TextLine>>, <<>>},
        gap \in {<<>>, <<Blank>>, <<Blank, Blank>>},
        sp \in {Sep, ShortSep, SepX, Dash},
        rows \in SeqsOf({ScanRow(fn)}, 1, MaxRows)}

InitScan ==
    /\ pc = "start"
    /\ family \in StaticFns
    /\ table_id = TableOf(family)
    /\ lines \in ScanDocs(family)
    /\ config = [has_format_path |-> TRUE]
    /\ catfile = [state |-> "ok", entries |-> CatalogOf(family)]
    /\ format_config = NotLoaded
    /\ result = NoResult
    /\ IdleRun

\* One call extraction_func(file_path, table_id, config) of the function the
\* catalog registers for the table.
CallScan == Call(family)

NextScan == CallScan

SpecScan == InitScan /\ [][NextScan]_vars

(***************************************************************************)
(* Unit calls on documents that vary what stands between two data lines of   *)
(* the section: blank lines, separator art, a page header, the next title.   *)
(***************************************************************************)
MaxFill == 2

\* The lines that may stand between two data lines.
FillLines == {Blank, Sep, Dash, Page("full", "2.50"), Marker("13.01")}

CollectDocs(fn) ==
    {<<Marker(TableOf(fn)), HeaderOfFn(fn), Sep, ScanRow(fn)>> \o fill \o <<ScanRow(fn)>> :
        fill \in SeqsOf(FillLines, 0, MaxFill)}

InitCollect ==
    /\ pc = "start"
    /\ family \in StaticFns
    /\ table_id = TableOf(family)
    /\ lines \in CollectDocs(family)
    /\ config = [has_format_path |-> TRUE]
    /\ catfile = [state |-> "ok", entries |-> CatalogOf(family)]
    /\ format_config = NotLoaded
    /\ result = NoResult
    /\ IdleRun

\* One call extraction_func(file_path, table_id, config) of the function the
\* catalog registers for the table.
CallCollect == Call(family)

NextCollect == CallCollect

SpecCollect == InitCollect /\ [][NextCollect]_vars

(***************************************************************************)
(* run_extraction: for every file of files_to_process, for every table id   *)
(* of tables_to_extract, select the function the catalog names, call it,     *)
(* and write the table when it is not empty.                                *)
(***************************************************************************)
\* The attributes of StopsPRNExtractor that getattr finds, among those modelled.
ClassFunctions == StaticFns \cup {"_extract_district_table"}

get_extraction_method(tid, cache, cfg, file) ==
    LET fc == get_table_format_config(cache, cfg, file)
        table_format == Lookup(fc.entries, tid)
    IN  IF ~table_format.present
        THEN [fn |-> "", fc |-> fc, warn |-> "No configuration found"]
        ELSE IF table_format.extraction_function = ""
        THEN [fn |-> "", fc |-> fc, warn |-> "extraction_function not specified"]
        ELSE IF table_format.extraction_function \notin ClassFunctions
        THEN [fn |-> "", fc |-> fc, warn |-> "function does not exist"]
        ELSE [fn |-> table_format.extraction_function, fc |-> fc, warn |-> ""]

Msg(m, f, tid) == [msg |-> m, fi |-> f, tid |-> tid]

\* The sections of the documents of a run.
Section(fn, rows) == <<Marker(TableOf(fn)), HeaderOfFn(fn), Sep>> \o rows
Rows_9_01 == <<Row(<<"S1", "Main", "7">>), Row(<<"", "Total", "1,234">>)>>
Rows_10_03 == <<Row(<<"R1", "--Red", "2.5">>)>>

RunDocs ==
    { <<Page("full", "2.50")>> \o Section("_extract_table_9_01_from_prn", Rows_9_01)
          \o <<Blank>> \o Section("_extract_table_10_03_04_from_prn", Rows_10_03),
      <<Page("nospace", "2.50")>> \o Section("_extract_table_9_01_from_prn", Rows_9_01),
      <<Page("full", "2.50"), Marker("13.01"),
        HeaderOfFn("_extract_table_9_01_from_prn"), Sep>> \o Rows_9_01,
      <<>> }

\* A file of files_to_process: missing; present but not readable (no read
\* permission, or a directory); or a readable document.
RunFiles ==
    {[exists |-> TRUE, readable |-> TRUE, doc |-> d] : d \in RunDocs}
    \cup {[exists |-> x, readable |-> FALSE, doc |-> <<>>] : x \in BOOLEAN}

\* The catalogs of a run: complete; a columns list without Route_Name; no
\* "columns" key; a column item without "width"; no entry for 10.03; no
\* extraction_function; a function the class does not have.
RunCatalogs ==
    LET e901(c) == Entry("9.01", "_extract_table_9_01_from_prn", "fixed_width", c,
                         NamesOf("_extract_table_9_01_from_prn"))
        e1003(fn, names) == Entry("10.03", fn, "fixed_width", "ok", names)
        f1003 == "_extract_table_10_03_04_from_prn"
    IN  { <<e901("ok"), e1003(f1003, NamesOf(f1003))>>,
          <<e901("ok"), e1003(f1003, <<"Route_ID", "Rev_Hours">>)>>,
          <<e901("missing"), e1003(f1003, NamesOf(f1003))>>,
          <<e901("nowidth"), e1003(f1003, NamesOf(f1003))>>,
          <<e901("ok")>>,
          <<e901("ok"), e1003("", NamesOf(f1003))>>,
          <<e901("ok"), e1003("_extract_table_10_04", NamesOf(f1003))>> }

MaxFiles == 2

\* The alias of the file at a position of files_to_process.
AliasOf(f) == IF f = 1 THEN "a" ELSE IF f = 2 THEN "b" ELSE "c"

\* table_id_str.replace('.', '_')
Underscored(tid) ==
    CASE tid = "9.01" -> "9_01"
      [] tid = "10.03" -> "10_03"
      [] OTHER -> tid

\* The entry of tables_to_extract for a table id: without output keys, with
\* both keys, or with a filename template that does not use {alias}.  A file
\* name and a folder name are sequences of the pieces they are joined from.
OutputKinds == {"default", "custom", "no alias"}
OutputConfig(kind, tid) ==
    CASE kind = "custom" ->
            [output_subfolder |-> <<"Boardings_", tid>>,
             output_filename_template |-> <<"{alias}", "_", tid, ".csv">>]
      [] kind = "no alias" ->
            [output_subfolder |-> <<>>,
             output_filename_template |-> <<"table_", tid, ".csv">>]
      [] OTHER -> [output_subfolder |-> <<>>, output_filename_template |-> <<>>]

\* filename_template.format(alias=alias)
Format(template, alias) ==
    [i \in 1..Len(template) |-> IF template[i] = "{alias}" THEN alias ELSE template[i]]

\* output_base_dir / subfolder / output_filename
OutputPath(output_config, alias, tid) ==
    LET subfolder == IF output_config.output_subfolder = <<>>
                     THEN <<"Table_", Underscored(tid)>>
                     ELSE output_config.output_subfolder
        filename_template == IF output_config.output_filename_template = <<>>
                             THEN <<"[", alias, "]__", tid, ".csv">>
                             ELSE output_config.output_filename_template
    IN  [folder |-> subfolder, name |-> Format(filename_template, alias)]

InitRun ==
    /\ pc = "file"
    /\ config \in {[has_format_path |-> TRUE, output |-> o] : o \in OutputKinds}
    /\ catfile \in {[state |-> "ok", entries |-> c] : c \in RunCatalogs}
                   \cup {[state |-> st, entries |-> EmptyCatalog] :
                            st \in {"missing", "malformed"}}
    /\ format_config = NotLoaded
    /\ files \in SeqsOf(RunFiles, 1, MaxFiles)
    /\ tables \in {<<"9.01">>, <<"10.03">>, <<"9.01", "10.03">>, <<"10.03", "9.01">>}
    /\ fi = 1 /\ ti = 0
    /\ csv = {} /\ log = <<>> /\ calls = <<>>
    /\ family = "" /\ table_id = "" /\ lines = <<>>
    /\ result = NoResult
    /\ IdleMain

UnchangedSetup ==
    /\ UNCHANGED <<config, catfile, files, tables>>
    /\ UnchangedMain
UnchangedCall == UNCHANGED <<family, table_id, lines, result, calls>>

\* if not file_path.exists(): warning; continue
SkipFile ==
    /\ pc = "file" /\ fi <= Len(files) /\ ~files[fi].exists
    /\ log' = Append(log, Msg("File not found", fi, ""))
    /\ fi' = fi + 1
    /\ UNCHANGED <<pc, ti, csv, format_config>>
    /\ UnchangedSetup /\ UnchangedCall

OpenFile ==
    /\ pc = "file" /\ fi <= Len(files) /\ files[fi].exists
    /\ log' = Append(log, Msg("Processing File", fi, ""))
    /\ pc' = "table" /\ ti' = 1
    /\ UNCHANGED <<fi, csv, format_config>>
    /\ UnchangedSetup /\ UnchangedCall

AtTable == pc = "table" /\ ti <= Len(tables)
Method == get_extraction_method(tables[ti], format_config, config, catfile)
\* with open(file_path, 'r', ...) as f: lines = f.readlines(), at the head of
\* every extraction function; only FileNotFoundError is caught there.
ExtractFrom(file, fn, tid, env) ==
    IF ~file.exists THEN Return(EmptyDF, NoMeta, env.cache)
    ELSE IF ~file.readable THEN Raise("OSError", env.cache)
    ELSE Apply(fn, file.doc, tid, env)

Extraction(m) ==
    ExtractFrom(files[fi], m.fn, tables[ti],
                [cache |-> m.fc, config |-> config, catfile |-> catfile])
Attempt == Msg("Attempting to extract", fi, tables[ti])

\* if not extraction_func: "No extraction method found"; continue
SkipTable ==
    /\ AtTable
    /\ \E m \in {Method} :
          /\ m.fn = ""
          /\ log' = log \o <<Attempt, Msg(m.warn, fi, tables[ti]),
                             Msg("No extraction method found", fi, tables[ti])>>
          /\ format_config' = m.fc
    /\ ti' = ti + 1
    /\ UNCHANGED <<pc, fi, csv>>
    /\ UnchangedSetup /\ UnchangedCall

\* The call extraction_func(str(file_path), table_id_str, config), recorded.
Called(m, x) ==
    /\ family' = m.fn /\ table_id' = tables[ti] /\ lines' = files[fi].doc
    /\ result' = x
    /\ format_config' = x.fc
    /\ calls' = Append(calls, [fi |-> fi, tid |-> tables[ti], fn |-> m.fn,
                               exc |-> x.exc, df |-> x.df, meta |-> x.meta])

\* The call raises: nothing in run_extraction catches it; main prints
\* "FATAL ERROR during Data Extraction" and exits with status 1.
ExtractionRaises ==
    /\ AtTable
    /\ \E m \in {Method} :
          /\ m.fn # ""
          /\ \E x \in {Extraction(m)} : x.exc # "" /\ Called(m, x)
    /\ log' = log \o <<Attempt, Msg("FATAL ERROR", fi, tables[ti])>>
    /\ pc' = "crashed"
    /\ UNCHANGED <<fi, ti, csv>>
    /\ UnchangedSetup

\* if df.empty: "No data found"; continue
NoDataFound ==
    /\ AtTable
    /\ \E m \in {Method} :
          /\ m.fn # ""
          /\ \E x \in {Extraction(m)} :
                /\ x.exc = "" /\ DfEmpty(x.df)
                /\ Called(m, x)
                /\ log' = log \o <<Attempt>>
                              \o (IF x.diag # ""
                                  THEN <<Msg(x.diag, fi, tables[ti])>> ELSE <<>>)
                              \o <<Msg("No data found", fi, tables[ti])>>
    /\ ti' = ti + 1
    /\ UNCHANGED <<pc, fi, csv>>
    /\ UnchangedSetup

\* df.to_csv(output_path, index=False)
SaveCsv ==
    /\ AtTable
    /\ \E m \in {Method} :
          /\ m.fn # ""
          /\ \E x \in {Extraction(m)} :
                /\ x.exc = "" /\ ~DfEmpty(x.df)
                /\ Called(m, x)
                /\ \E path \in {OutputPath(OutputConfig(config.output, tables[ti]),
                                         AliasOf(fi), tables[ti])} :
                      csv' = {w \in csv : w.path # path}
                             \cup {[path |-> path, fi |-> fi, tid |-> tables[ti],
                                     header |-> x.df.cols, index |-> FALSE]}
    /\ log' = log \o <<Attempt, Msg("Successfully saved", fi, tables[ti])>>
    /\ ti' = ti + 1
    /\ UNCHANGED <<pc, fi>>
    /\ UnchangedSetup

\* The table loop of a file is exhausted.
NextFile ==
    /\ pc = "table" /\ ti > Len(tables)
    /\ pc' = "file" /\ fi' = fi + 1
    /\ UNCHANGED <<ti, csv, log, format_config>>
    /\ UnchangedSetup /\ UnchangedCall

\* The file loop is exhausted: "Data Extraction Complete".
Complete ==
    /\ pc = "file" /\ fi > Len(files)
    /\ pc' = "finished"
    /\ log' = Append(log, Msg("Data Extraction Complete", 0, ""))
    /\ UNCHANGED <<fi, ti, csv, format_config>>
    /\ UnchangedSetup /\ UnchangedCall

NextRun ==
    \/ SkipFile \/ OpenFile \/ SkipTable \/ ExtractionRaises
    \/ NoDataFound \/ SaveCsv \/ NextFile \/ Complete

SpecRun == InitRun /\ [][NextRun]_vars

(***************************************************************************)
(* main: load the two configuration files, then run the steps their       *)
(* run_flags switch on.  What the steps do inside is an input here: each   *)
(* either returns or raises.                                               *)
(***************************************************************************)
\* A configuration file on disk: absent; not valid JSON; valid JSON that is
\* not an object (a non-empty list); or a configuration object.
ConfigFiles == {"missing", "invalid json", "list", "ok"}

\* load_config(file_path, description): [exit, value]
load_config(file) ==
    CASE file = "missing" -> [exit |-> FALSE, value |-> "None"]
      [] file = "invalid json" -> [exit |-> TRUE, value |-> "None"]
      [] file = "list" -> [exit |-> FALSE, value |-> "list"]
      [] OTHER -> [exit |-> FALSE, value |-> "dict"]

InitMain ==
    /\ pc = "load"
    /\ config \in [extraction_file : ConfigFiles, reporting_file : ConfigFiles,
                   CONDUCT_DATA_EXTRACTION : BOOLEAN,
                   CONDUCT_REPORT_GENERATION : BOOLEAN,
                   initialize_raises : BOOLEAN, extraction_raises : BOOLEAN,
                   reporting_raises : BOOLEAN]
    /\ extraction_config = "None" /\ reporting_config = "None" /\ status = -1
    /\ IdleLayout
    /\ catfile = [state |-> "missing", entries |-> EmptyCatalog]
    /\ format_config = NotLoaded
    /\ files = <<>> /\ tables = <<>> /\ fi = 0 /\ ti = 0
    /\ csv = {} /\ log = <<>> /\ calls = <<>>
    /\ family = "" /\ table_id = "" /\ lines = <<>>
    /\ result = NoResult

UnchangedByMain ==
    /\ UNCHANGED <<config, catfile, format_config, files, tables, fi, ti, csv, calls,
                   family, table_id, lines, result>>
    /\ UnchangedLayout

\* sys.exit(1), or an exception no handler catches: the interpreter prints the
\* traceback and exits with status 1.
Exit1(m) ==
    /\ pc' = "exited" /\ status' = 1
    /\ log' = Append(log, Msg(m, 0, ""))

\* extraction_config and extraction_config.get("run_flags", {}).get(flag, False):
\* "raises" for a non-empty list, which has no get.
FlagOf(value, flag) ==
    CASE value = "None" -> "false"
      [] value = "list" -> "raises"
      [] OTHER -> IF flag THEN "true" ELSE "false"

\* The two load_config calls at the head of main.
LoadConfigs ==
    /\ pc = "load"
    /\ LET e == load_config(config.extraction_file)
           r == load_config(config.reporting_file)
       IN  IF e.exit \/ r.exit
           THEN /\ Exit1("FATAL: not a valid JSON file")
                /\ extraction_config' = e.value
                /\ reporting_config' = IF e.exit THEN "None" ELSE r.value
           ELSE /\ extraction_config' = e.value /\ reporting_config' = r.value
                /\ pc' = "initialization"
                /\ UNCHANGED <<status, log>>
    /\ UnchangedByMain

\* A step that was started and raised: the message of its start, then Exit1.
Exit1In(step, m) ==
    /\ pc' = "exited" /\ status' = 1
    /\ log' = log \o <<Msg(step, 0, ""), Msg(m, 0, "")>>

\* Step 0: initialize_folders, when extraction is switched on.
Initialization ==
    /\ pc = "initialization"
    /\ LET flag == FlagOf(extraction_config, config.CONDUCT_DATA_EXTRACTION) IN
       CASE flag = "raises" -> Exit1("AttributeError")
         [] flag = "true" /\ reporting_config # "None"
               /\ (config.initialize_raises \/ reporting_config = "list") ->
               Exit1In("initialize_folders", "FATAL ERROR during Initialization")
         [] flag = "true" /\ reporting_config # "None" ->
               /\ pc' = "extraction" /\ UNCHANGED status
               /\ log' = Append(log, Msg("initialize_folders", 0, ""))
         [] OTHER -> pc' = "extraction" /\ UNCHANGED <<status, log>>
    /\ UNCHANGED <<extraction_config, reporting_config>>
    /\ UnchangedByMain

\* Step 1 with a handler that reports the failure and goes on.
DataExtraction_Continues ==
    /\ pc = "extraction"
    /\ LET flag == FlagOf(extraction_config, config.CONDUCT_DATA_EXTRACTION) IN
       CASE flag = "raises" -> Exit1("AttributeError")
         [] flag = "true" /\ config.extraction_raises ->
               /\ pc' = "reporting" /\ UNCHANGED status
               /\ log' = log \o <<Msg("run_extraction", 0, ""),
                                  Msg("FATAL ERROR during Data Extraction", 0, "")>>
         [] flag = "true" ->
               /\ pc' = "reporting" /\ UNCHANGED status
               /\ log' = log \o <<Msg("run_extraction", 0, ""),
                                  Msg("Data Extraction Complete", 0, "")>>
         [] OTHER ->
               /\ pc' = "reporting" /\ UNCHANGED status
               /\ log' = Append(log, Msg("Skipping Data Extraction", 0, ""))
    /\ UNCHANGED <<extraction_config, reporting_config>>
    /\ UnchangedByMain

\* Step 1: run_extraction inside try/except Exception.
DataExtraction ==
    /\ pc = "extraction"
    /\ LET flag == FlagOf(extraction_config, config.CONDUCT_DATA_EXTRACTION) IN
       CASE flag = "raises" -> Exit1("AttributeError")
         [] flag = "true" /\ config.extraction_raises ->
               Exit1In("run_extraction", "FATAL ERROR during Data Extraction")
         [] flag = "true" ->
               /\ pc' = "reporting" /\ UNCHANGED status
               /\ log' = log \o <<Msg("run_extraction", 0, ""),
                                  Msg("Data Extraction Complete", 0, "")>>
         [] OTHER ->
               /\ pc' = "reporting" /\ UNCHANGED status
               /\ log' = Append(log, Msg("Skipping Data Extraction", 0, ""))
    /\ UNCHANGED <<extraction_config, reporting_config>>
    /\ UnchangedByMain

\* Step 2: run_reporting inside try/except Exception, then the closing message.
ReportGeneration ==
    /\ pc = "reporting"
    /\ LET flag == FlagOf(reporting_config, config.CONDUCT_REPORT_GENERATION) IN
       CASE flag = "raises" -> Exit1("AttributeError")
         [] flag = "true" /\ config.reporting_raises ->
               Exit1In("run_reporting", "FATAL ERROR during Report Generation")
         [] flag = "true" ->
               /\ pc' = "exited" /\ status' = 0
               /\ log' = log \o <<Msg("run_reporting", 0, ""),
                                  Msg("Pipeline finished successfully", 0, "")>>
         [] OTHER ->
               /\ pc' = "exited" /\ status' = 0
               /\ log' = log \o <<Msg("Skipping Report Generation", 0, ""),
                                  Msg("Pipeline finished successfully", 0, "")>>
    /\ UNCHANGED <<extraction_config, reporting_config>>
    /\ UnchangedByMain

NextMain == LoadConfigs \/ Initialization \/ DataExtraction \/ ReportGeneration

SpecMain == InitMain /\ [][NextMain]_vars

(***************************************************************************)
(* Properties of the unit calls.                                           *)
(***************************************************************************)
\* The data lines of the section, in document order.
DataRows(ls) == SelectSeq(ls, LAMBDA l : l.k = "row")

\* Field `name` of a data line, as the layout of the function slices it.
RawCell(fn, l, name) ==
    l.toks[CHOOSE c \in 1..Len(NamesOf(fn)) : NamesOf(fn)[c] = name]

TrailingTotalFns == {"_extract_table_9_01_from_prn", "_extract_table_10_01_from_prn",
                     "_extract_table_10_03_04_from_prn", "_extract_table_10_05_from_prn"}

IdCol(fn) == IF fn = "_extract_table_9_01_from_prn" THEN "Stop_id1" ELSE "Route_ID"
NameCol(fn) == IF fn = "_extract_table_9_01_from_prn" THEN "Station_Name" ELSE "Route_Name"

Returned == pc = "done" /\ result.exc = ""

\* The first data line is an ordinary record: not a summary line, an ellipsis
\* line or a group line without a record of its own.
FirstRowOrdinary(fn, ls) ==
    LET l == DataRows(ls)[1] IN
    CASE fn = "_extract_table_12_01_from_prn" -> ~LineStartsWithTotal(l)
      [] fn = "_extract_table_10_06_from_prn" ->
            /\ ~LineHasTotal(l) /\ ~StartsWithDot(l)
            /\ RawCell(fn, l, "EXISTING_from_Route_ID") \notin NaTokens
      [] fn = "_extract_table_11_XX_from_prn" ->
            /\ ~HasEllipsis(l) /\ ~StartsEqDash(l)
            /\ ~StartsWithDots(RawCell(fn, l, "HH_Cars"))
      [] OTHER -> TRUE

\* The number of columns the function returns for its layout: the entries not
\* named _sep*, and one more (Route_Name) for Table 10.02 when the layout has
\* no Route_Name.
ReturnedWidth(fn) ==
    Cardinality({c \in 1..Len(NamesOf(fn)) : ~IsSepCol(NamesOf(fn)[c])})
    + (IF fn = "_extract_table_10_02_from_prn"
          /\ \A c \in 1..Len(NamesOf(fn)) : NamesOf(fn)[c] # "Route_Name"
       THEN 1 ELSE 0)

NumericCols == {"WLK", "Count", "Rev_Hours", "ALL", "Trips", "EXISTING_Transfers"}

\* C4: no cell of a numeric column is a missing value; a blank or unparsable
\* source cell gives 0.
C4_NoMissingNumber ==
    Returned =>
        \A r \in 1..Len(result.df.rows) : \A c \in 1..Len(result.df.cols) :
            result.df.cols[c] \in NumericCols
            => /\ result.df.rows[r][c].t \in {"int", "float"}
               /\ result.df.rows[r][c].t # "nan"

FilledCols(fn) ==
    CASE fn = "_extract_table_10_02_from_prn" -> {"Route_ID"}
      [] fn = "_extract_table_10_06_from_prn" -> {"to_Route_ID"}
      [] fn = "_extract_table_11_XX_from_prn" -> {"HH_Cars", "Sub_mode"}
      [] OTHER -> {}

\* Every data line of the document becomes one output row, in order.
AllRowsKept(fn, ls) ==
    \A r \in 1..Len(DataRows(ls)) :
        LET l == DataRows(ls)[r] IN
        CASE fn = "_extract_table_10_06_from_prn" ->
                /\ ~LineHasTotal(l) /\ ~StartsWithDot(l)
                /\ RawCell(fn, l, "EXISTING_from_Route_ID") \notin NaTokens
          [] fn = "_extract_table_11_XX_from_prn" ->
                /\ ~HasEllipsis(l) /\ ~StartsEqDash(l)
                /\ ~StartsWithDots(RawCell(fn, l, "HH_Cars"))
          [] OTHER -> TRUE

\* C6: in a forward-filled table, a row whose raw identifier is blank gets the
\* value of the nearest preceding row whose raw identifier is not blank, and a
\* row whose raw identifier is not blank keeps its own.
C6_ForwardFill ==
    (Returned /\ FilledCols(family) # {} /\ AllRowsKept(family, lines))
    => \A col \in FilledCols(family) : \A r \in 1..Len(result.df.rows) :
          LET raw(q) == RawCell(family, DataRows(lines)[q], col)
              before == {q \in 1..(r - 1) : raw(q) # ""}
          IN  /\ raw(r) # "" => Cell(result.df, r, col) = Str(raw(r))
              /\ (raw(r) = "" /\ before # {})
                    => Cell(result.df, r, col) = Str(raw(Max(before)))

(***************************************************************************)
(* Properties of run_extraction.                                           *)
(***************************************************************************)
Logged(m, f, tid) == \E i \in 1..Len(log) : log[i] = Msg(m, f, tid)
Written(f, tid) == \E w \in csv : w.fi = f /\ w.tid = tid
Attempted(f, tid) == Logged("Attempting to extract", f, tid)
CrashedAt(f, tid) == pc = "crashed" /\ fi = f /\ tables[ti] = tid

\* C1: no failure of one (file, table_id) pair ends the run: the run never
\* stops on an exception, and when it is complete every table id has been
\* attempted on every file that exists.
C1_FailureContained ==
    /\ pc # "crashed"
    /\ pc = "finished"
          => \A f \in 1..Len(files) : \A t \in 1..Len(tables) :
                files[f].exists => Attempted(f, tables[t])

\* No line of the document holds the title "Table <id>..." of the table id.
TitleAbsent(doc, tid) == \A i \in 1..Len(doc) : ~MarkerMatches(doc[i], tid)

CatalogEntry(tid) ==
    IF catfile.state = "ok" THEN Lookup(catfile.entries, tid) ELSE NoEntry

\* The catalog has no entry for the table id, or the entry has no usable
\* columns list, or its columns list lacks a column of the table's layout.
EntryIncomplete(tid) ==
    LET e == CatalogEntry(tid) IN
    \/ ~e.present
    \/ e.columns # "ok"
    \/ /\ e.extraction_function \in StaticFns
       /\ \E c \in 1..Len(NamesOf(e.extraction_function)) :
             \A d \in 1..Len(e.names) : e.names[d] # NamesOf(e.extraction_function)[c]

Diagnostics == {"No configuration found", "invalid columns", "No data found"}

\* C10: an attempted pair whose catalog entry is missing or incomplete ends
\* without an exception, with a diagnostic and without a CSV, and the run
\* goes on.
C10_IncompleteEntry ==
    \A f \in 1..Len(files) : \A t \in 1..Len(tables) :
        (Attempted(f, tables[t]) /\ EntryIncomplete(tables[t]))
        => /\ ~CrashedAt(f, tables[t])
           /\ ~Written(f, tables[t])
           /\ \E d \in Diagnostics : Logged(d, f, tables[t])

\* The number of (file, table_id) pairs the run has attempted.
Attempts == Cardinality({i \in 1..Len(log) : log[i].msg = "Attempting to extract"})

\* C11: once the run has read a catalog file that is not valid JSON, or not a
\* list of entries each carrying a table_id, it stops with an error: it
\* attempts no pair after the one that read the catalog and never ends as
\* complete.
C11_MalformedCatalogFatal ==
    (catfile.state = "malformed" /\ format_config.loaded)
    => (pc # "finished" /\ Attempts <= 1)

\* C12: the catalog file is opened at most once, by the first step that looks
\* a table up, and once the cache is loaded no step changes it.
C12_LoadedOnce ==
    [][/\ format_config'.reads <= 1
       /\ format_config.loaded => format_config' = format_config
       /\ (AtTable /\ ~format_config.loaded)
             => /\ format_config'.loaded
                /\ format_config'.reads = (IF catfile.state = "missing" THEN 0 ELSE 1)
                /\ catfile.state = "ok" => format_config'.entries = catfile.entries]_vars

C12_Witness ==
    /\ format_config.loaded /\ format_config.reads = 1
    /\ Len(format_config.entries) = 2
    /\ Len(calls) >= 3 /\ Attempts >= 4

\* The pairs for which the run has written a table.
Saved == {i \in 1..Len(log) : log[i].msg = "Successfully saved"}

\* The path the output contract gives the table of (alias, table_id).
ContractPath(alias, tid) ==
    [folder |-> <<"Table_", Underscored(tid)>>,
     name |-> <<"[", alias, "]__", "Table_", tid, ".csv">>]

\* C13: every non-empty extraction has written exactly one CSV, at
\* Table_<id with '_'>/[<alias>]__Table_<id>.csv, whose header row is the
\* column names and which has no index column.
C13_OneCsvAtContractPath ==
    /\ Cardinality(csv) = Cardinality(Saved)
    /\ \A i \in Saved :
          \E w \in csv :
             /\ w.fi = log[i].fi /\ w.tid = log[i].tid
             /\ w.path = ContractPath(AliasOf(w.fi), w.tid)
             /\ ~w.index
             /\ \E c \in 1..Len(calls) :
                   /\ calls[c].fi = w.fi /\ calls[c].tid = w.tid
                   /\ w.header = calls[c].df.cols

\* C14: a file that is missing or cannot be read is skipped: no table is
\* written from it, the run does not stop on it, and a complete run has
\* attempted every table on every readable file.
C14_UnreadableFileSkipped ==
    /\ \A f \in 1..Len(files) :
          ~files[f].readable
          => /\ ~(pc = "crashed" /\ fi = f)
             /\ ~\E w \in csv : w.fi = f
    /\ pc = "finished"
          => \A f \in 1..Len(files) : \A t \in 1..Len(tables) :
                files[f].readable => Attempted(f, tables[t])

\* C15: when a top-level configuration file is missing or malformed, the
\* process exits with a non-zero status and never reports a successful run.
C15_BadConfigExitsNonZero ==
    (pc = "exited" /\ (config.extraction_file # "ok" \/ config.reporting_file # "ok"))
    => /\ status # 0
       /\ ~Logged("Pipeline finished successfully", 0, "")

(***************************************************************************)
(* Properties of the scanner.                                              *)
(***************************************************************************)
Titles(ls, tid) == {i \in 1..Len(ls) : ls[i].k = "marker" /\ ls[i].tid = tid}
AnyTitles(ls) == {i \in 1..Len(ls) : ls[i].k = "marker"}

\* C16: a document that holds no title with exactly the requested id, only the
\* title of a table whose id begins with it, gives the empty result.
C16_ExactMarker ==
    (pc = "done" /\ Titles(lines, table_id) = {})
    => /\ result.exc = ""
       /\ DfEmpty(result.df)
       /\ result.meta = NoMeta

\* The functions that look for a header line of their own.
HeaderFns == TrailingTotalFns \cup {"_extract_table_10_02_from_prn"}

Min(S) == CHOOSE x \in S : \A y \in S : x <= y

\* The line of the first title of the requested table, and the line of the
\* next title of any table after it (one past the end when there is none).
FirstTitle(ls, tid) == Min(Titles(ls, tid))
NextTitle(ls, tid) ==
    LET later == {i \in AnyTitles(ls) : i > FirstTitle(ls, tid)} IN
    IF later = {} THEN Len(ls) + 1 ELSE Min(later)

\* A header line of the function directly followed by a line beginning with
\* '=', both inside the section of the requested table.
AnchorInSection(fn, ls, tid) ==
    \E i \in FirstTitle(ls, tid)..(NextTitle(ls, tid) - 2) :
        HeaderAnchor(fn, ls[i]) /\ StartsWithEq(ls[i + 1])

\* C17: when the title of the requested table is there but no header line with
\* its separator stands before the next title, the result is empty: a header
\* after the next title is not used.
C17_HeaderBeforeNextTitle ==
    (pc = "done" /\ family \in HeaderFns /\ Titles(lines, table_id) # {}
        /\ ~AnchorInSection(family, lines, table_id))
    => /\ result.exc = ""
       /\ DfEmpty(result.df)

\* A separator in the documented sense: a line of '=' characters and nothing
\* else.
AllEq(l) == l.k \in {"sep", "sepshort"}

\* The documented locator: a header line of the function with an all-'=' line
\* one, two or three lines below it.
SeparatorWithin3(fn, ls) ==
    \E i \in 1..Len(ls) : \E d \in 1..3 :
        /\ i + d <= Len(ls)
        /\ HeaderAnchor(fn, ls[i])
        /\ AllEq(ls[i + d])

\* A document with the title of the requested table and no other title.
OneTitle == Titles(lines, table_id) # {} /\ Cardinality(AnyTitles(lines)) = 1

\* C18: in a document with the requested title only, the rows below the
\* separator are returned exactly when the header line has an all-'=' line one,
\* two or three lines below it.
C18_SeparatorWithinThree ==
    (pc = "done" /\ family \in HeaderFns /\ OneTitle)
    => /\ result.exc = ""
       /\ DfEmpty(result.df) <=> ~SeparatorWithin3(family, lines)

\* The document has a column header line somewhere.
HasHeaderLine(ls) == \E i \in 1..Len(ls) : ls[i].k = "hdr"

\* C19: in a document with the requested title and no header line at all, a
\* separator line alone locates nothing: the result is empty, for every family.
C19_HeaderAndSeparator ==
    (pc = "done" /\ OneTitle /\ ~HasHeaderLine(lines))
    => /\ result.exc = ""
       /\ DfEmpty(result.df)

\* The functions whose row collection ends at a summary line.
SummaryFns == TrailingTotalFns \cup {"_extract_table_12_01_from_prn"}

\* The label field of a data line: the district of Table 12.01, the name of
\* the stop or route elsewhere.
LabelOf(fn, l) ==
    IF fn = "_extract_table_12_01_from_prn" THEN l.toks[1] ELSE l.toks[2]

\* The data lines whose label contains "Total".
TotalLines(fn, ls) ==
    {i \in 1..Len(ls) : ls[i].k = "row" /\ HasTotal(LabelOf(fn, ls[i]))}

\* The line below the separator of the section.
DataStart(ls) == 1 + Min({i \in 1..Len(ls) : ls[i].k = "sep"})

\* C20: when a data line of the section has "Total" in its label, the rows
\* returned are the lines from the first data line to the first such line, that
\* line included, and nothing after it.
C20_TotalRowIncludedLast ==
    (Returned /\ family \in SummaryFns /\ TotalLines(family, lines) # {})
    => Len(result.df.rows) = Min(TotalLines(family, lines)) - DataStart(lines) + 1

\* A line that ends the section: the title of a table or a page header.
StopLine(l) == l.k \in {"marker", "page"}

\* The lines the documented collection takes from line i on: up to the first
\* title or page header, without the blank lines and the lines of '=' or '-'.
RECURSIVE Collected(_, _)
Collected(ls, i) ==
    IF i > Len(ls) \/ StopLine(ls[i]) THEN <<>>
    ELSE IF ls[i].k \in {"blank", "sep", "sepshort", "dash"} THEN Collected(ls, i + 1)
    ELSE <<ls[i]>> \o Collected(ls, i + 1)

\* C21: the rows returned are the data lines from the line below the separator
\* to the first title or page header: blank lines and lines of '=' or '-' are
\* passed over without ending the collection, and nothing at or after the stop
\* line is taken.
C21_CollectedUpToStop ==
    Returned => Len(result.df.rows) = Len(Collected(lines, DataStart(lines)))

\* C22: a cell of a numeric column written with a thousands separator,
\* "1,234", is returned as the number 1234, in every family.
C22_ThousandsSeparator ==
    (Returned /\ Len(result.df.rows) = Len(DataRows(lines)))
    => \A r \in 1..Len(result.df.rows) : \A c \in 1..Len(result.df.cols) :
          (/\ result.df.cols[c] \in NumericCols
           /\ RawCell(family, DataRows(lines)[r], result.df.cols[c]) = "1,234")
          => /\ result.df.rows[r][c].t \in {"int", "float"}
             /\ result.df.rows[r][c].n = 1234
             /\ result.df.rows[r][c].f = 0

DestNames == <<"1", "2", "3", "4", "5", "6">>
MatrixCells == {"3", "5", "x", "2.5"}

\* A matrix row "<origin> <cell> ... <cell>" of up to MaxDest + 1 cells.
MatrixRows == {Row(<<"1">> \o cells) : cells \in SeqsOf(MatrixCells, 0, MaxDest + 1)}

\* A district-table section: title, "Idist" header of d destinations, separator,
\* data rows, and what ends them.
DistrictDocs ==
    {pre \o <<Marker("13.01"), Header(<<"Idist">> \o SubSeq(DestNames, 1, d)), Sep>>
         \o rows \o tail :
        pre \in {<<>>, <<Page("full", "2.50")>>},
        d \in 1..MaxDest,
        rows \in SeqsOf(MatrixRows, 1, MaxRows),
        tail \in {<<>>, <<Row(<<"Total", "5", "5">>)>>}}

InitDistrict ==
    /\ pc = "start"
    /\ family = "_extract_district_table"
    /\ table_id = "13.01"
    /\ lines \in DistrictDocs
    /\ config = [has_format_path |-> TRUE]
    /\ catfile = [state |-> "ok", entries |-> EmptyCatalog]
    /\ format_config = NotLoaded
    /\ result = NoResult
    /\ IdleRun

\* One call of StopsPRNExtractor._extract_district_table(file_path, table_id, config).
CallDistrict ==
    /\ pc = "start"
    /\ family = "_extract_district_table"
    /\ result' = extract_district_table(lines, table_id, format_config)
    /\ format_config' = result'.fc
    /\ pc' = "done"
    /\ UnchangedInput /\ UnchangedRun

NextDistrict == CallDistrict

SpecDistrict == InitDistrict /\ [][NextDistrict]_vars

(***************************************************************************)
(* The matrix of a district document, read off the document itself.        *)
(***************************************************************************)
\* The data rows of the section: the "row" lines that are not the Total row.
MatrixOf(ls) == SelectSeq(ls, LAMBDA l : l.k = "row" /\ ~LineStartsWithTotal(l))
HeaderOf(ls) == SelectSeq(ls, LAMBDA l : l.k = "hdr")[1]
DestCount(ls) == Len(HeaderOf(ls).toks) - 1

RECURSIVE SumSeq(_)
SumSeq(s) == IF Len(s) = 0 THEN 0 ELSE Head(s) + SumSeq(Tail(s))

\* Ten times the sum of the cells of one source row (its tokens after the origin).
RowMass(l) == SumSeq([c \in 1..(Len(l.toks) - 1) |-> Tenths(ToNumeric(l.toks[c + 1]))])
SourceMass(ls) == SumSeq([r \in 1..Len(MatrixOf(ls)) |-> RowMass(MatrixOf(ls)[r])])

\* Ten times the sum of the numeric values of a table.
TableMass(df) ==
    SumSeq([r \in 1..Len(df.rows) |->
              SumSeq([c \in 1..Len(df.rows[r]) |-> Tenths(df.rows[r][c])])])

\* Every cell of the matrix is a whole number.
WholeCells(ls) ==
    \A r \in 1..Len(MatrixOf(ls)) : \A c \in 2..Len(MatrixOf(ls)[r].toks) :
        ToNumeric(MatrixOf(ls)[r].toks[c]).t = "int"

\* C7: a matrix-style table with R data rows and D destination columns is
\* returned in long format, as exactly R x D records (origin, destination,
\* value).
C7_LongFormat ==
    (pc = "done" /\ family = "_extract_district_table"
        /\ \A r \in 1..Len(MatrixOf(lines)) :
              Len(MatrixOf(lines)[r].toks) = DestCount(lines) + 1)
    => /\ result.exc = ""
       /\ Len(result.df.rows) = Len(MatrixOf(lines)) * DestCount(lines)
       /\ Len(result.df.cols) = 3

\* C8: the measure values of the extracted matrix-style table add up to the
\* sum of the matrix cells of the collected source rows, whatever the lengths
\* of the header and of the rows.
C8_MassConserved ==
    (pc = "done" /\ family = "_extract_district_table" /\ WholeCells(lines))
    => /\ result.exc = ""
       /\ TableMass(result.df) = SourceMass(lines)

\* Some data row of the matrix has more or fewer fields than the header has
\* column names.
ColumnCountMismatch(ls) ==
    \E r \in 1..Len(MatrixOf(ls)) :
        /\ Len(MatrixOf(ls)[r].toks) > 1
        /\ Len(MatrixOf(ls)[r].toks) # Len(HeaderOf(ls).toks)

\* C23: when the number of column names differs from the number of data
\* columns, the extraction of the table gives the empty result: no truncated
\* or partly named table, and no exception.
C23_MismatchInvalidates ==
    (pc = "done" /\ family = "_extract_district_table" /\ ColumnCountMismatch(lines))
    => /\ result.exc = ""
       /\ DfEmpty(result.df)

(***************************************************************************)
(* Column layouts: the (start, end) pairs and the column names handed to   *)
(* pd.read_fwf.  The static layout comes from the widths of a catalog      *)
(* columns list (src/extractor.py), the dynamic layout from the            *)
(* '<year> <label>' groups of a header line (src/stops_prn_extractor.py).  *)
(***************************************************************************)
MaxCols == 3
MaxGroups == 2

\* for width in widths: end = start + width; colspecs.append((start, end));
\* start = end
RECURSIVE ColspecsLoop(_, _, _, _)
ColspecsLoop(ws, i, start, acc) ==
    IF i > Len(ws) THEN acc
    ELSE ColspecsLoop(ws, i + 1, start + ws[i], Append(acc, <<start, start + ws[i]>>))

generate_colspecs_NoAdvance(ws) == [i \in 1..Len(ws) |-> <<0, ws[i]>>]

generate_colspecs_from_widths(ws) == ColspecsLoop(ws, 1, 0, <<>>)

\* m.group(1).strip().replace(' ', '_') of a match of (Y20\d\d\s+[\w-]+): every
\* blank between the year and the label becomes one underscore.
GroupName(g) == <<g.year>> \o [b \in 1..g.blanks |-> "_"] \o <<g.label>>

\* Table 10.01: colspecs = [(0, 20), (20, 56), (56, 65)]; the names
Prefix_10_01 == <<<<0, 20>>, <<20, 56>>, <<56, 65>>>>
PrefixNames_10_01 == <<<<"Route_ID">>, <<"Route_Name">>, <<"Count">>>>
SubHeaders_10_01 == <<"WLK", "KNR", "PNR", "ALL">>

\* col_start = start_of_dynamic_columns + (i * 40) + (j * 10), i and j from 0
ColStart_10_01(i, j) == 65 + (i * 40) + (j * 10)
ColEnd_10_01(i, j) == ColStart_10_01(i, j) + 10

\* Table 9.01: colspecs = [(0, 26), (26, 47)]; the names
Prefix_9_01 == <<<<0, 26>>, <<26, 47>>>>
PrefixNames_9_01 == <<<<"Stop_id1">>, <<"Station_Name">>>>
SubHeaders_9_01 == <<"WLK", "KNR", "PNR", "XFR", "ALL">>

ColStart_9_01_Pitch10(i, j) == 47 + (i * 50) + (j * 10)

\* if j == 0: col_start = 47 + (i * 51) else: 47 + (i * 51) + 11 + ((j - 1) * 10)
ColStart_9_01(i, j) ==
    IF j = 0 THEN 47 + (i * 51) ELSE 47 + (i * 51) + 11 + ((j - 1) * 10)

\* col_end = col_start + 11 if j == 0 else col_start + 10
ColEnd_9_01(i, j) ==
    IF j = 0 THEN ColStart_9_01(i, j) + 11 ELSE ColStart_9_01(i, j) + 10

\* The two nested loops over header_info and the sub-headers, in append order:
\* entry n (from 1) belongs to group (n - 1) \div S and sub-header (n - 1) % S.
DynamicNames(hi, subs) ==
    [n \in 1..(Len(hi) * Len(subs)) |->
        GroupName(hi[((n - 1) \div Len(subs)) + 1])
            \o <<"_", subs[((n - 1) % Len(subs)) + 1]>>]

DynamicColspecs_10_01(hi) ==
    Prefix_10_01 \o
    [n \in 1..(Len(hi) * 4) |->
        <<ColStart_10_01((n - 1) \div 4, (n - 1) % 4),
          ColEnd_10_01((n - 1) \div 4, (n - 1) % 4)>>]

DynamicColspecs_9_01(hi) ==
    Prefix_9_01 \o
    [n \in 1..(Len(hi) * 5) |->
        <<ColStart_9_01((n - 1) \div 5, (n - 1) % 5),
          ColEnd_9_01((n - 1) \div 5, (n - 1) % 5)>>]

\* The widths of a catalog columns list, and the groups of a header line.
Widths == {1, 2, 10}
Groups == [year : {"Y2020", "Y2040"}, blanks : {1, 2}, label : {"EXISTING"}]

LayoutFns == {"_generate_colspecs_from_widths", "_extract_table_10_01_from_prn",
              "_extract_table_9_01_from_prn"}

InitLayout ==
    /\ pc = "start"
    /\ family \in LayoutFns
    /\ IF family = "_generate_colspecs_from_widths"
       THEN widths \in SeqsOf(Widths, 0, MaxCols) /\ header_info = <<>>
       ELSE widths = <<>> /\ header_info \in SeqsOf(Groups, 0, MaxGroups)
    /\ colspecs = <<>> /\ col_names = <<>>
    /\ table_id = "" /\ lines = <<>>
    /\ config = [has_format_path |-> TRUE]
    /\ catfile = [state |-> "missing", entries |-> EmptyCatalog]
    /\ format_config = NotLoaded
    /\ result = NoResult
    /\ files = <<>> /\ tables = <<>> /\ fi = 0 /\ ti = 0
    /\ csv = {} /\ log = <<>> /\ calls = <<>>
    /\ extraction_config = "None" /\ reporting_config = "None" /\ status = -1

UnchangedByLayout ==
    UNCHANGED <<config, catfile, format_config, files, tables, fi, ti, csv, log,
                calls, family, table_id, lines, result, extraction_config,
                reporting_config, status, widths, header_info>>

\* colspecs = StopsPRNExtractor._generate_colspecs_from_widths(widths)
StaticLayout ==
    /\ pc = "start" /\ family = "_generate_colspecs_from_widths"
    /\ colspecs' = generate_colspecs_from_widths(widths)
    /\ col_names' = col_names
    /\ pc' = "done"
    /\ UnchangedByLayout

\* The layout of Table 10.01 in src/stops_prn_extractor.py.
DynamicLayout_10_01 ==
    /\ pc = "start" /\ family = "_extract_table_10_01_from_prn"
    /\ colspecs' = DynamicColspecs_10_01(header_info)
    /\ col_names' = PrefixNames_10_01 \o DynamicNames(header_info, SubHeaders_10_01)
    /\ pc' = "done"
    /\ UnchangedByLayout

\* The layout of Table 9.01 in src/stops_prn_extractor.py.
DynamicLayout_9_01 ==
    /\ pc = "start" /\ family = "_extract_table_9_01_from_prn"
    /\ colspecs' = DynamicColspecs_9_01(header_info)
    /\ col_names' = PrefixNames_9_01 \o DynamicNames(header_info, SubHeaders_9_01)
    /\ pc' = "done"
    /\ UnchangedByLayout

NextLayout == StaticLayout \/ DynamicLayout_10_01 \/ DynamicLayout_9_01

SpecLayout == InitLayout /\ [][NextLayout]_vars

\* The sum of the first n widths.
RECURSIVE Offset(_, _)
Offset(ws, n) == IF n = 0 THEN 0 ELSE Offset(ws, n - 1) + ws[n]

\* Entry 1 starts at 0 and every entry starts where the one before it ends.
Contiguous(cs) ==
    /\ Len(cs) > 0 => cs[1][1] = 0
    /\ \A i \in 2..Len(cs) : cs[i][1] = cs[i - 1][2]

\* C24: the static layout of the widths w1..wn has n entries in catalog order,
\* entry i spanning [w1+...+w(i-1), w1+...+wi): the first starts at 0 and the
\* entries are contiguous and do not overlap.
C24_CumulativeOffsets ==
    (pc = "done" /\ family = "_generate_colspecs_from_widths")
    => /\ Len(colspecs) = Len(widths)
       /\ \A i \in 1..Len(widths) :
             colspecs[i] = <<Offset(widths, i - 1), Offset(widths, i)>>
       /\ Contiguous(colspecs)

C24_Witness ==
    /\ pc = "done" /\ family = "_generate_colspecs_from_widths"
    /\ widths = <<10, 2, 1>>
    /\ colspecs = <<<<0, 10>>, <<10, 12>>, <<12, 13>>>>

DynamicFns == {"_extract_table_10_01_from_prn", "_extract_table_9_01_from_prn"}
PrefixOf(fn) == IF fn = "_extract_table_10_01_from_prn" THEN Prefix_10_01 ELSE Prefix_9_01
SubsOf(fn) ==
    IF fn = "_extract_table_10_01_from_prn" THEN SubHeaders_10_01 ELSE SubHeaders_9_01

\* The position in the layout of sub-column j of group i (both from 1).
SubCol(fn, i, j) == Len(PrefixOf(fn)) + (i - 1) * Len(SubsOf(fn)) + j
Width(c) == c[2] - c[1]

\* The prefix columns stand first, then one sub-column per group and suffix.
PrefixThenGroups ==
    /\ Len(colspecs) = Len(PrefixOf(family)) + Len(header_info) * Len(SubsOf(family))
    /\ Len(col_names) = Len(colspecs)
    /\ SubSeq(colspecs, 1, Len(PrefixOf(family))) = PrefixOf(family)
    /\ Contiguous(colspecs)

\* C25 (as claimed): after the fixed prefix, every group of the header gives one
\* sub-column per suffix, named <year>_<label>_<suffix>; all sub-columns have
\* the same width and the layout is contiguous.
C25_ConstantPitch ==
    (pc = "done" /\ family \in DynamicFns)
    => /\ PrefixThenGroups
       /\ \A i \in 1..Len(header_info) : \A j \in 1..Len(SubsOf(family)) :
            /\ col_names[SubCol(family, i, j)]
                 = <<header_info[i].year, "_", header_info[i].label, "_",
                     SubsOf(family)[j]>>
            /\ Width(colspecs[SubCol(family, i, j)])
                 = Width(colspecs[SubCol(family, 1, 1)])

\* C25 (amended): the name of a sub-column has one underscore for every blank
\* between year and label, and the sub-columns are 10 wide except the first
\* sub-column of every group of Table 9.01, which is 11 wide.
C25_DynamicLayout ==
    (pc = "done" /\ family \in DynamicFns)
    => /\ PrefixThenGroups
       /\ \A i \in 1..Len(header_info) : \A j \in 1..Len(SubsOf(family)) :
            /\ col_names[SubCol(family, i, j)]
                 = GroupName(header_info[i]) \o <<"_", SubsOf(family)[j]>>
            /\ Width(colspecs[SubCol(family, i, j)])
                 = IF family = "_extract_table_9_01_from_prn" /\ j = 1
                   THEN 11 ELSE 10

C25_Witness ==
    /\ pc = "done" /\ family = "_extract_table_9_01_from_prn"
    /\ Len(header_info) = 2
    /\ colspecs[3] = <<47, 58>> /\ colspecs[4] = <<58, 68>>
    /\ colspecs[8] = <<98, 109>>
    /\ Len(colspecs) = 12

(***************************************************************************)
(* Unit calls of _extract_metadata_from_prn on the lines above a title.    *)
(***************************************************************************)
Ver(v) == Line("ver", "", <<v>>)            \* "Version: <v> - <date>" alone
RunLine(r, sys) == Line("run", "", <<r, sys>>)  \* "Run: <r>[ System: <sys>]"
PageNo(n) == Line("pageno", "", <<n>>)      \* "Page <n>"
\* "Program STOPS - Version: <v> - <date>     Page <n>": one line, two patterns
PageWithNo(form, v, n) == Line("page", "", <<form, v, n>>)

MetaLines ==
    {Page("full", "2.50"), Page("nodate", "2.60"), Page("nospace", "2.50"),
     Page("plain", ""), PageWithNo("full", "2.50", "7"), Ver("2.70"),
     RunLine("r1", "sys"), RunLine("r2", ""), PageNo("5"), PageNo("6"),
     Row(<<"text">>)}

\* A title with up to two such lines above it: one right above the title and
\* one 1, 8 or 9 lines farther up (the last is outside the 9 lines read).
MetaDocs ==
    {far \o [b \in 1..gap |-> Blank] \o near \o <<Marker("9.01")>> :
        far \in SeqsOf(MetaLines, 0, 1), near \in SeqsOf(MetaLines, 0, 1),
        gap \in {0, 7, 8}}

InitMeta ==
    /\ pc = "start"
    /\ family = "_extract_metadata_from_prn"
    /\ table_id = "9.01"
    /\ lines \in MetaDocs
    /\ config = [has_format_path |-> TRUE]
    /\ catfile = [state |-> "missing", entries |-> EmptyCatalog]
    /\ format_config = NotLoaded
    /\ result = NoResult
    /\ IdleRun

\* metadata = StopsPRNExtractor._extract_metadata_from_prn(lines, i), i the
\* line of the title.
HarvestMetadata ==
    /\ pc = "start" /\ family = "_extract_metadata_from_prn"
    /\ \E md \in {extract_metadata_from_prn(lines, Len(lines))} :
          result' = [NoResult EXCEPT !.meta = MetaOf(md), !.exc = md.exc]
    /\ pc' = "done"
    /\ UNCHANGED format_config
    /\ UnchangedInput /\ UnchangedRun

NextMeta == HarvestMetadata

SpecMeta == InitMeta /\ [][NextMeta]_vars

\* The harvest that reads the 9 lines above the title from the farthest to the
\* nearest, so that the line nearest to the title is applied last.
RECURSIVE MetaToward(_, _, _, _)
MetaToward(ls, start_index, meta_line_offset, md) ==
    IF meta_line_offset < 1 THEN md
    ELSE LET meta_line_num == start_index - meta_line_offset IN
         MetaToward(ls, start_index, meta_line_offset - 1,
                    IF meta_line_num >= 1 THEN MetaLine(md, ls[meta_line_num]) ELSE md)

\* C26: when several of the 9 lines above the title give the same field, the
\* value kept is the one of the line nearest to the title.
C26_NearestLineWins ==
    (pc = "done" /\ family = "_extract_metadata_from_prn" /\ result.exc = "")
    => result.meta
         = MetaOf(MetaToward(lines, Len(lines), 9,
                             extract_metadata_from_prn(<<>>, 0)))

\* The lines among the 9 above the title that hold a Program/Version part and a
\* page number.
TwoPatternLines(ls) ==
    {i \in 1..(Len(ls) - 1) : /\ Len(ls) - i <= 9
                              /\ ls[i].k = "page" /\ Len(ls[i].toks) = 3}

\* No other line above the title matches a metadata pattern.
OnlySource(ls, i) ==
    \A j \in 1..(Len(ls) - 1) : j # i => ls[j].k \in {"blank", "row"}

\* C27: a Program/Version line that also carries 'Page <n>' contributes the
\* page number as well as the program and the version.
C27_EveryPatternContributes ==
    (pc = "done" /\ family = "_extract_metadata_from_prn" /\ result.exc = "")
    => \A i \in TwoPatternLines(lines) :
          OnlySource(lines, i)
          => /\ result.meta.Program = "STOPS"
             /\ result.meta.Version = lines[i].toks[2]
             /\ result.meta.Page = lines[i].toks[3]

\* C28: the harvest never raises, whatever the lines above the title hold.
C28_HarvestNeverRaises ==
    (pc = "done" /\ family = "_extract_metadata_from_prn") => result.exc = ""

(***************************************************************************)
(* A process that looks tables up with get_extraction_method, each call    *)
(* with a config of its own: without the path key, or naming a catalog     *)
(* file that is missing, malformed or valid.                               *)
(***************************************************************************)
MaxLookups == 3

\* The catalog files a config may name.
CatalogFiles ==
    {[state |-> "ok", entries |-> CatalogOf("_extract_table_9_01_from_prn")],
     [state |-> "ok", entries |-> EmptyCatalog],
     [state |-> "missing", entries |-> EmptyCatalog],
     [state |-> "malformed", entries |-> EmptyCatalog]}

InitLookup ==
    /\ pc = "lookup"
    /\ config = [has_format_path |-> FALSE]
    /\ catfile = [state |-> "missing", entries |-> EmptyCatalog]
    /\ format_config = NotLoaded
    /\ family = "" /\ table_id = "" /\ lines = <<>>
    /\ result = NoResult
    /\ IdleRun

\* extraction_func = get_extraction_method(table_id_str, config): the call is
\* recorded with the config it was given, what it returned ("" for None) and
\* the cache it left.
GetExtractionMethod ==
    /\ pc = "lookup" /\ Len(calls) < MaxLookups
    /\ \E tid \in {"9.01", "10.03"}, p \in BOOLEAN, file \in CatalogFiles :
          \E m \in {get_extraction_method(tid, format_config,
                                          [has_format_path |-> p], file)} :
             /\ config' = [has_format_path |-> p]
             /\ catfile' = file
             /\ table_id' = tid
             /\ family' = m.fn
             /\ format_config' = m.fc
             /\ calls' = Append(calls, [tid |-> tid, has_format_path |-> p,
                                        file |-> file, fn |-> m.fn, fc |-> m.fc])
    /\ UNCHANGED <<pc, lines, result, files, tables, fi, ti, csv, log>>
    /\ UnchangedMain

NextLookup == GetExtractionMethod

SpecLookup == InitLookup /\ [][NextLookup]_vars

\* The load of a call fails: no path key, no file, or a file that does not parse.
LoadFails(c) == ~c.has_format_path \/ c.file.state # "ok"

\* The config of a call names a valid catalog that has the requested table.
NamesValidCatalog(c) ==
    /\ c.has_format_path /\ c.file.state = "ok"
    /\ Lookup(c.file.entries, c.tid).present

\* C29: when the load of the first call fails, the empty catalog is cached, no
\* later call reads a catalog file, whatever its config names, and every
\* lookup returns None.
C29_FailedLoadSticky ==
    (pc = "lookup" /\ Len(calls) > 0 /\ LoadFails(calls[1]))
    => \A i \in 1..Len(calls) :
          /\ calls[i].fn = ""
          /\ calls[i].fc = calls[1].fc
          /\ calls[i].fc.loaded /\ calls[i].fc.entries = EmptyCatalog

C29_Witness ==
    /\ pc = "lookup" /\ Len(calls) >= 2
    /\ LoadFails(calls[1])
    /\ NamesValidCatalog(calls[2])
    /\ calls[2].fn = ""

(***************************************************************************)
(* Properties of main.                                                     *)
(***************************************************************************)
\* The positions in the log of a message of main.
At(m) == {i \in 1..Len(log) : log[i] = Msg(m, 0, "")}

\* The messages of a failure: sys.exit(1) in a handler, or an exception that
\* no handler catches.
Failures ==
    {"FATAL: not a valid JSON file", "AttributeError",
     "FATAL ERROR during Initialization", "FATAL ERROR during Data Extraction",
     "FATAL ERROR during Report Generation"}
FailedAt == UNION {At(m) : m \in Failures}

\* C30: the steps of main start in the order folder initialization, data
\* extraction, report generation, each at most once; a failure is the last
\* thing the process does, it exits with status 1 and starts no later step;
\* the success message is printed only when no step failed.
C30_StepsInOrderFailureStops ==
    /\ \A i \in At("initialize_folders") : \A j \in At("run_extraction") : i < j
    /\ \A i \in At("run_extraction") : \A j \in At("run_reporting") : i < j
    /\ \A i \in At("initialize_folders") : \A j \in At("run_reporting") : i < j
    /\ \A s \in {"initialize_folders", "run_extraction", "run_reporting"} :
          Cardinality(At(s)) <= 1
    /\ \A i \in FailedAt : i = Len(log) /\ pc = "exited" /\ status = 1
    /\ At("FATAL ERROR during Data Extraction") # {} => At("run_reporting") = {}
    /\ At("Pipeline finished successfully") # {} => FailedAt = {} /\ status = 0

C30_Witness ==
    /\ pc = "exited" /\ status = 1
    /\ At("initialize_folders") # {}
    /\ At("run_extraction") # {}
    /\ At("FATAL ERROR during Data Extraction") # {}
    /\ config.CONDUCT_REPORT_GENERATION /\ reporting_config = "dict"

====
